---- MODULE Spec2Model ----
(***************************************************************************)
(* Person store of assecor-assessment-backend: the CSV normalizer and      *)
(* decoder, the in-memory repository guarded by a sync.RWMutex, and the    *)
(* SQLite repository whose Add runs in one transaction.                    *)
(*                                                                         *)
(* Text is modelled as a sequence of one-character strings, so that        *)
(* splitting, trimming, joining and number parsing are computed the way    *)
(* the Go code computes them.  Color names are plain strings; the umlauts  *)
(* of the source are written out ("gruen", "tuerkis", "weiss").            *)
(***************************************************************************)
EXTENDS Integers, Sequences, FiniteSets, TLC

\* ------------------------------------------------------------------------
\* Text helpers (Go package strings / strconv)
\* ------------------------------------------------------------------------

\* unicode.IsSpace restricted to the characters that occur in the inputs
IsSpace(c) == c \in {" ", "\t", "\r", "\n"}

RECURSIVE ReplaceCRLF_Drop(_)
\* ReplaceCRLF that deletes the pair instead of putting a line feed in its place
ReplaceCRLF_Drop(s) ==
    IF Len(s) = 0 THEN << >>
    ELSE IF Len(s) >= 2 /\ s[1] = "\r" /\ s[2] = "\n"
         THEN ReplaceCRLF_Drop(SubSeq(s, 3, Len(s)))
         ELSE <<s[1]>> \o ReplaceCRLF_Drop(Tail(s))

RECURSIVE ReplaceCRLF(_)
\* strings.ReplaceAll(s, "\r\n", "\n")
ReplaceCRLF(s) ==
    IF Len(s) = 0 THEN << >>
    ELSE IF Len(s) >= 2 /\ s[1] = "\r" /\ s[2] = "\n"
         THEN <<"\n">> \o ReplaceCRLF(SubSeq(s, 3, Len(s)))
         ELSE <<s[1]>> \o ReplaceCRLF(Tail(s))

RECURSIVE SplitAcc(_, _, _)
SplitAcc(s, sep, cur) ==
    IF Len(s) = 0 THEN <<cur>>
    ELSE IF s[1] = sep THEN <<cur>> \o SplitAcc(Tail(s), sep, << >>)
         ELSE SplitAcc(Tail(s), sep, Append(cur, s[1]))

\* strings.Split(s, sep) for a one-character separator; Split("", sep) = [""]
Split(s, sep) == SplitAcc(s, sep, << >>)

RECURSIVE TrimLeft(_)
TrimLeft(s) == IF Len(s) > 0 /\ IsSpace(s[1]) THEN TrimLeft(Tail(s)) ELSE s

RECURSIVE TrimRight(_)
TrimRight(s) ==
    IF Len(s) > 0 /\ IsSpace(s[Len(s)]) THEN TrimRight(SubSeq(s, 1, Len(s) - 1)) ELSE s

\* strings.TrimSpace
TrimSpace(s) == TrimRight(TrimLeft(s))

RECURSIVE Join(_, _)
\* strings.Join(parts, sep)
Join(parts, sep) ==
    IF Len(parts) = 0 THEN << >>
    ELSE IF Len(parts) = 1 THEN parts[1]
         ELSE parts[1] \o sep \o Join(Tail(parts), sep)

\* index of the first occurrence of character c in s, 0 when absent
IndexOf(s, c) ==
    IF \E i \in 1..Len(s) : s[i] = c
    THEN CHOOSE i \in 1..Len(s) : s[i] = c /\ \A j \in 1..(i - 1) : s[j] # c
    ELSE 0

\* strings.SplitN(s, " ", 2)
SplitN2(s) ==
    LET i == IndexOf(s, " ")
    IN IF i = 0 THEN <<s>>
       ELSE <<SubSeq(s, 1, i - 1), SubSeq(s, i + 1, Len(s))>>

Digits == {"0", "1", "2", "3", "4", "5", "6", "7", "8", "9"}

DigitVal(c) ==
    CASE c = "0" -> 0 [] c = "1" -> 1 [] c = "2" -> 2 [] c = "3" -> 3
      [] c = "4" -> 4 [] c = "5" -> 5 [] c = "6" -> 6 [] c = "7" -> 7
      [] c = "8" -> 8 [] c = "9" -> 9

RECURSIVE DecVal(_)
DecVal(s) == IF Len(s) = 0 THEN 0 ELSE 10 * DecVal(SubSeq(s, 1, Len(s) - 1)) + DigitVal(s[Len(s)])

\* strconv.Atoi: an optional sign followed by at least one decimal digit
Atoi(s) ==
    LET signed == Len(s) > 0 /\ s[1] \in {"+", "-"}
        body   == IF signed THEN Tail(s) ELSE s
    IN IF Len(body) > 0 /\ \A i \in 1..Len(body) : body[i] \in Digits
       THEN [ok |-> TRUE, val |-> IF signed /\ s[1] = "-" THEN 0 - DecVal(body) ELSE DecVal(body)]
       ELSE [ok |-> FALSE, val |-> 0]

\* ------------------------------------------------------------------------
\* domain
\* ------------------------------------------------------------------------

\* domain.ColorMap
ColorMap == (1 :> "blau") @@ (2 :> "gruen") @@ (3 :> "violett") @@ (4 :> "rot")
            @@ (5 :> "gelb") @@ (6 :> "tuerkis") @@ (7 :> "weiss")

\* domain.ColorNameID
ColorNameID == ("blau" :> 1) @@ ("gruen" :> 2) @@ ("violett" :> 3) @@ ("rot" :> 4)
               @@ ("gelb" :> 5) @@ ("tuerkis" :> 6) @@ ("weiss" :> 7)

\* domain.Person{} (the zero value returned next to an error)
NoPerson == [ID |-> 0, Name |-> << >>, Lastname |-> << >>, Zipcode |-> << >>,
             City |-> << >>, Color |-> ""]

\* ------------------------------------------------------------------------
\* Record normalizer and decoder (package csv)
\* ------------------------------------------------------------------------

RECURSIVE TrimmedNonEmpty(_)
\* the loop of normalizeCSV that appends the trimmed non-empty fields
TrimmedNonEmpty(rawParts) ==
    IF Len(rawParts) = 0 THEN << >>
    ELSE LET trimmed == TrimSpace(rawParts[1])
         IN (IF trimmed # << >> THEN <<trimmed>> ELSE << >>) \o TrimmedNonEmpty(Tail(rawParts))

countNonEmpty(parts) == Cardinality({i \in 1..Len(parts) : TrimSpace(parts[i]) # << >>})

\* NormLine that starts every line with an empty accumulator
NormLine_NoCarry(st, line) ==
    LET acc1 == TrimmedNonEmpty(Split(line, ","))
        n    == Len(acc1)
    IN IF n >= 4
       THEN [accumulated |-> << >>,
             records |-> Append(st.records,
                                <<acc1[1], acc1[2], Join(SubSeq(acc1, 3, n - 1), <<" ">>), acc1[n]>>)]
       ELSE [accumulated |-> acc1, records |-> st.records]

\* NormLine that never discards the accumulator before appending
NormLine_NoDiscard(st, line) ==
    LET acc1 == st.accumulated \o TrimmedNonEmpty(Split(line, ","))
        n    == Len(acc1)
    IN IF n >= 4
       THEN [accumulated |-> << >>,
             records |-> Append(st.records,
                                <<acc1[1], acc1[2], Join(SubSeq(acc1, 3, n - 1), <<" ">>), acc1[n]>>)]
       ELSE [accumulated |-> acc1, records |-> st.records]

\* NormLine that emits the first four tokens and drops the rest
NormLine_FirstFour(st, line) ==
    LET rawParts == Split(line, ",")
        nonEmpty == countNonEmpty(rawParts)
        acc0     == IF Len(st.accumulated) > 0 /\ nonEmpty >= 4 THEN << >> ELSE st.accumulated
        acc1     == acc0 \o TrimmedNonEmpty(rawParts)
    IN IF Len(acc1) >= 4
       THEN [accumulated |-> << >>,
             records |-> Append(st.records, <<acc1[1], acc1[2], acc1[3], acc1[4]>>)]
       ELSE [accumulated |-> acc1, records |-> st.records]

\* NormLine that emits a record only from 5 tokens on
NormLine_EmitAtFive(st, line) ==
    LET rawParts == Split(line, ",")
        nonEmpty == countNonEmpty(rawParts)
        acc0     == IF Len(st.accumulated) > 0 /\ nonEmpty >= 4 THEN << >> ELSE st.accumulated
        acc1     == acc0 \o TrimmedNonEmpty(rawParts)
        n        == Len(acc1)
    IN IF n >= 5
       THEN [accumulated |-> << >>,
             records |-> Append(st.records,
                                <<acc1[1], acc1[2], Join(SubSeq(acc1, 3, n - 1), <<" ">>), acc1[n]>>)]
       ELSE [accumulated |-> acc1, records |-> st.records]

RECURSIVE EmitEveryFour(_, _)
\* emits a record for each run of 4 tokens and keeps the rest
EmitEveryFour(acc, recs) ==
    IF Len(acc) < 4 THEN [accumulated |-> acc, records |-> recs]
    ELSE EmitEveryFour(SubSeq(acc, 5, Len(acc)), Append(recs, SubSeq(acc, 1, 4)))

\* NormLine that cuts the accumulator into records of 4 tokens
NormLine_EveryFour(st, line) ==
    LET rawParts == Split(line, ",")
        nonEmpty == countNonEmpty(rawParts)
        acc0     == IF Len(st.accumulated) > 0 /\ nonEmpty >= 4 THEN << >> ELSE st.accumulated
    IN EmitEveryFour(acc0 \o TrimmedNonEmpty(rawParts), st.records)

\* one iteration of the line loop of normalizeCSV on the state (accumulated, records)
NormLine(st, line) ==
    LET rawParts == Split(line, ",")
        nonEmpty == countNonEmpty(rawParts)
        acc0     == IF Len(st.accumulated) > 0 /\ nonEmpty >= 4 THEN << >> ELSE st.accumulated
        acc1     == acc0 \o TrimmedNonEmpty(rawParts)
        n        == Len(acc1)
    IN IF n >= 4
       THEN [accumulated |-> << >>,
             records |-> Append(st.records,
                                <<acc1[1], acc1[2], Join(SubSeq(acc1, 3, n - 1), <<" ">>), acc1[n]>>)]
       ELSE [accumulated |-> acc1, records |-> st.records]

\* NormEnd that writes the leftover tokens out as a last record
NormEnd_FlushLeftover(st) ==
    IF Len(st.accumulated) > 0 THEN Append(st.records, st.accumulated) ELSE st.records

\* after the line loop: leftover tokens are logged and dropped, the records are returned
NormEnd(st) == st.records

\* strings.Split(strings.ReplaceAll(string(data), "\r\n", "\n"), "\n")
PhysicalLines(data) == Split(ReplaceCRLF(data), "\n")

RECURSIVE NormLoop(_, _)
NormLoop(st, ls) == IF Len(ls) = 0 THEN st ELSE NormLoop(NormLine(st, ls[1]), Tail(ls))

Header == << <<"l">>, <<"n">>, <<"z">>, <<"c">> >>

\* normalizeCSV up to the csv.Writer: the header row followed by the records
normalizeCSV(data) ==
    NormEnd(NormLoop([accumulated |-> << >>, records |-> <<Header>>], PhysicalLines(data)))

RECURSIVE WriteAll(_)
\* csv.Writer.WriteAll for fields that need no quoting: one line per record
WriteAll(records) ==
    IF Len(records) = 0 THEN << >>
    ELSE Join(records[1], <<",">>) \o <<"\n">> \o WriteAll(Tail(records))

RECURSIVE ReadRows(_)
ReadRows(ls) ==
    IF Len(ls) = 0 THEN << >>
    ELSE (IF ls[1] = << >> THEN << >> ELSE <<Split(ls[1], ",")>>) \o ReadRows(Tail(ls))

\* column of the header row that carries the given csv tag
Column(header, tag) == CHOOSE i \in 1..Len(header) : header[i] = tag

\* gocsv.UnmarshalBytes into []*personDTO: rows after the header, fields by csv tag
UnmarshalBytes(bytes) ==
    LET rows == ReadRows(Split(bytes, "\n"))
        hdr  == rows[1]
    IN [i \in 1..(Len(rows) - 1) |->
          [Lastname |-> rows[i + 1][Column(hdr, <<"l">>)],
           Name     |-> rows[i + 1][Column(hdr, <<"n">>)],
           ZipCity  |-> rows[i + 1][Column(hdr, <<"z">>)],
           ColorID  |-> rows[i + 1][Column(hdr, <<"c">>)]]]

\* index of the last occurrence of character c in s, 0 when absent
LastIndexOf(s, c) ==
    IF \E i \in 1..Len(s) : s[i] = c
    THEN CHOOSE i \in 1..Len(s) : s[i] = c /\ \A j \in (i + 1)..Len(s) : s[j] # c
    ELSE 0

\* splitZipcodeCity that cuts at the last space
splitZipcodeCity_LastSpace(s) ==
    LET i == LastIndexOf(s, " ")
    IN IF i > 0
       THEN [zipcode |-> TrimSpace(SubSeq(s, 1, i - 1)), city |-> TrimSpace(SubSeq(s, i + 1, Len(s)))]
       ELSE [zipcode |-> s, city |-> << >>]

\* splitZipcodeCity that returns the two parts as they were cut
splitZipcodeCity_NoTrim(s) ==
    LET parts == SplitN2(s)
    IN IF Len(parts) = 2
       THEN [zipcode |-> parts[1], city |-> parts[2]]
       ELSE [zipcode |-> s, city |-> << >>]

\* strings.SplitN(s, " ", 2), both parts trimmed; without a space s as it is
splitZipcodeCity(s) ==
    LET parts == SplitN2(s)
    IN IF Len(parts) = 2
       THEN [zipcode |-> TrimSpace(parts[1]), city |-> TrimSpace(parts[2])]
       ELSE [zipcode |-> s, city |-> << >>]

\* toPerson that takes the code for an index counted from 0
toPerson_ZeroBased(id, dto) ==
    LET colorID == Atoi(TrimSpace(dto.ColorID))
    IN IF ~colorID.ok THEN [ok |-> FALSE, person |-> NoPerson]
       ELSE IF colorID.val + 1 \notin DOMAIN ColorMap THEN [ok |-> FALSE, person |-> NoPerson]
       ELSE LET zc == splitZipcodeCity(dto.ZipCity)
            IN [ok |-> TRUE,
                person |-> [ID |-> id, Name |-> dto.Name, Lastname |-> dto.Lastname,
                            Zipcode |-> zc.zipcode, City |-> zc.city,
                            Color |-> ColorMap[colorID.val + 1]]]

toPerson(id, dto) ==
    LET colorID == Atoi(TrimSpace(dto.ColorID))
    IN IF ~colorID.ok THEN [ok |-> FALSE, person |-> NoPerson]
       ELSE IF colorID.val \notin DOMAIN ColorMap THEN [ok |-> FALSE, person |-> NoPerson]
       ELSE LET zc == splitZipcodeCity(dto.ZipCity)
            IN [ok |-> TRUE,
                person |-> [ID |-> id, Name |-> dto.Name, Lastname |-> dto.Lastname,
                            Zipcode |-> zc.zipcode, City |-> zc.city,
                            Color |-> ColorMap[colorID.val]]]

RECURSIVE LoadLoop_Renumber(_, _, _)
\* LoadLoop that numbers the persons by their position among the stored ones
LoadLoop_Renumber(dtos, i, acc) ==
    IF i > Len(dtos) THEN acc
    ELSE LET r == toPerson(Len(acc) + 1, dtos[i])
         IN LoadLoop_Renumber(dtos, i + 1, IF r.ok THEN Append(acc, r.person) ELSE acc)

RECURSIVE LoadLoop_AbortOnError(_, _, _)
\* LoadLoop that stops at the first record that does not decode
LoadLoop_AbortOnError(dtos, i, acc) ==
    IF i > Len(dtos) THEN acc
    ELSE LET r == toPerson(i, dtos[i])
         IN IF r.ok THEN LoadLoop_AbortOnError(dtos, i + 1, Append(acc, r.person)) ELSE acc

RECURSIVE LoadLoop(_, _, _)
\* the for-loop of load: decode record i as toPerson(i, dto), append the ones that decode
LoadLoop(dtos, i, acc) ==
    IF i > Len(dtos) THEN acc
    ELSE LET r == toPerson(i, dtos[i])
         IN LoadLoop(dtos, i + 1, IF r.ok THEN Append(acc, r.person) ELSE acc)

\* load that continues the IDs after the number of stored persons
load_NextAfterStored(data) ==
    LET dtos == UnmarshalBytes(WriteAll(normalizeCSV(data)))
    IN [persons |-> LoadLoop(dtos, 1, << >>), nextID |-> Len(LoadLoop(dtos, 1, << >>)) + 1,
        dtos |-> dtos]

\* PersonRepository.load for a readable file with content data
load(data) ==
    LET dtos == UnmarshalBytes(WriteAll(normalizeCSV(data)))
    IN [persons |-> LoadLoop(dtos, 1, << >>), nextID |-> Len(dtos) + 1, dtos |-> dtos]

\* ------------------------------------------------------------------------
\* Bounds and inputs
\* ------------------------------------------------------------------------

NumProcs == 3
MaxCalls == 3
MaxRecs  == 2
MaxCap   == 2

Procs == 1..NumProcs

\* color-code fields of the generated source records: two valid codes,
\* an unknown code and a field that is not a number
Codes == {<<"1">>, <<"2">>, <<"9", "9">>, <<"x">>}

LastNames  == <<"A", "C", "E", "G">>
FirstNames == <<"B", "D", "F", "H">>

\* one physical line "A, B, 1 X, <code>\n" for record i
RecLine(i, code) ==
    <<LastNames[i], ",", " ", FirstNames[i], ",", " ", "1", " ", "X", ",", " ">> \o code \o <<"\n">>

RECURSIVE SourceOf(_, _)
SourceOf(codes, i) ==
    IF i > Len(codes) THEN << >> ELSE RecLine(i, codes[i]) \o SourceOf(codes, i + 1)

\* "Bart, Bertram, \n12313 W, 1\n" shortened: one record over two physical lines
MultiLineSource == <<"S", ",", " ", "T", ",", " ", "\n", "1", "2", " ", "W", ",", " ", "1", "\n">>

Sources ==
    {SourceOf(cs, 1) : cs \in UNION {[1..n -> Codes] : n \in 0..MaxRecs}} \cup {MultiLineSource}

\* persons handed to Add; the second one carries a caller-chosen ID
AddArgs ==
    { [ID |-> 0, Name |-> <<"N">>, Lastname |-> <<"P">>, Zipcode |-> << >>, City |-> << >>,
       Color |-> "rot"],
      [ID |-> 1, Name |-> <<"Z">>, Lastname |-> <<"Q">>, Zipcode |-> <<"1">>, City |-> <<"X">>,
       Color |-> "blau"] }

QueryColors == {"blau", "rot"}

\* ------------------------------------------------------------------------
\* State
\* ------------------------------------------------------------------------

VARIABLES
    source,      \* content of the file the memory repository was loaded from
    maxPersons,  \* PersonRepository.maxPersons (both variants)
    dtos,        \* history: the normalized records load decoded (its local variable dtos)
    loadedCount, \* history: number of persons load stored
    persons,     \* csv.PersonRepository.persons
    nextID,      \* csv.PersonRepository.nextID
    mu,          \* sync.RWMutex: w = writer holding or waiting for it (0 none), readers = read holders
    pc,          \* position of each caller of the memory repository
    call,        \* call in progress of each caller: kind and the local variable person
    ret,         \* value the call in progress is about to return
    calls,       \* number of calls started
    assigned,    \* history: IDs handed out by the memory Add, in assignment order
    addLog,      \* history: completed memory Add calls (caller, argument, returned person, error)
    table,       \* committed rows of the table persons
    sqlSeq,      \* committed sqlite_sequence value of the table (largest key handed out)
    tpc,         \* position of each caller of the SQL Add
    tlock,       \* lock the caller's connection holds on the database file
    tcount,      \* local variable count of the SQL Add
    tperson,     \* local variable person of the SQL Add
    tret,        \* value the SQL Add in progress is about to return
    leaked,      \* a connection went back to the pool with its write transaction still open
    sqlLog,      \* history: completed SQL Add calls (caller, returned person, error)
    qry,         \* sequential run: the last operation and its arguments
    memRet,      \* sequential run: what the memory repository returned for it
    sqlRet,      \* sequential run: what the SQL repository returned for it
    shape,       \* normalizer run: token count and layout of each line the input was built from
    data,        \* normalizer run: the input bytes
    lines,       \* normalizer run: local variable lines
    lineNo,      \* normalizer run: number of physical lines processed
    accumulated, \* normalizer run: local variable accumulated
    records,     \* normalizer run: local variable records
    hist,        \* history: accumulator and record count after each processed line, fields the guard dropped
    out,         \* normalizer run: the bytes returned
    normErr,     \* normalizer run: the error returned ("none" while the run lasts)
    dto,         \* decoder run: the record handed to toPerson
    decID,       \* decoder run: the id handed to toPerson
    decRet,      \* decoder run: what toPerson returned
    readable,    \* construction: os.ReadFile can read the file
    newErr,      \* construction: the error NewPersonRepository returned ("none" before the call)
    orig,        \* construction: the person the source line was written from, if it was
    svcArg,      \* service run: the person handed to PersonService.Add
    svcRet,      \* service run: what PersonService.Add returned
    heap,        \* slice run: the backing arrays of r.persons (store) and of the caller's list (own)
    got          \* slice run: the slice header of the list the last read returned

cfgVars  == <<source, maxPersons, dtos, loadedCount>>
memVars  == <<persons, nextID>>
procVars == <<mu, pc, call, ret, assigned, addLog>>
sqlVars  == <<table, sqlSeq>>
txVars   == <<tpc, tlock, tcount, tperson, tret, leaked, sqlLog>>
seqVars  == <<qry, memRet, sqlRet>>
normVars == <<shape, data, lines, lineNo, accumulated, records, hist, out, normErr>>
decVars  == <<dto, decID, decRet>>
newVars  == <<readable, newErr, orig>>
svcVars  == <<svcArg, svcRet>>
refVars  == <<heap, got>>

vars == <<cfgVars, memVars, procVars, calls, sqlVars, txVars, seqVars, normVars, decVars, newVars,
          svcVars, refVars>>

NoCall == [kind |-> "none", arg |-> NoPerson, person |-> NoPerson]

\* a Go slice: present is FALSE for the nil slice
NilSlice == [present |-> FALSE, items |-> << >>]
MakeSlice(items) == [present |-> TRUE, items |-> items]

NoRet == [err |-> "none", person |-> NoPerson, list |-> NilSlice]

\* ------------------------------------------------------------------------
\* Sequential run and normalizer run at rest
\* ------------------------------------------------------------------------

NoQry == [kind |-> "none", person |-> NoPerson, color |-> "", limit |-> 0, offset |-> 0, id |-> 0]

SeqIdle ==
    /\ qry = NoQry
    /\ memRet = NoRet
    /\ sqlRet = NoRet

NormIdle ==
    /\ shape = << >>
    /\ data = << >>
    /\ lines = << >>
    /\ lineNo = 0
    /\ accumulated = << >>
    /\ records = << >>
    /\ hist = << >>
    /\ out = << >>
    /\ normErr = "none"

\* ------------------------------------------------------------------------
\* Decoder run, construction and service run at rest
\* ------------------------------------------------------------------------

NoDTO == [Lastname |-> << >>, Name |-> << >>, ZipCity |-> << >>, ColorID |-> << >>]

NoDecRet == [done |-> FALSE, ok |-> FALSE, person |-> NoPerson]

DecIdle ==
    /\ dto = NoDTO
    /\ decID = 0
    /\ decRet = NoDecRet

\* the repository was constructed from a file that could be read
NewDone ==
    /\ readable = TRUE
    /\ newErr = "nil"
    /\ orig = NoPerson

SvcIdle ==
    /\ svcArg = NoPerson
    /\ svcRet = NoRet

\* a Go slice header: the array it points into, its offset in it, len and cap
NilHeader == [arr |-> "nil", off |-> 0, len |-> 0, cap |-> 0]

\* no list has been returned and no array is looked at
RefIdle ==
    /\ heap = [store |-> << >>, own |-> << >>]
    /\ got = NilHeader

\* ------------------------------------------------------------------------
\* Memory repository (package csv)
\* ------------------------------------------------------------------------

\* applyPagination that cuts to limit before it skips offset
applyPagination_LimitFirst(items, limit, offset) ==
    LET off == IF offset < 0 THEN 0 ELSE offset
        cut == IF limit > 0 /\ limit < Len(items.items) THEN SubSeq(items.items, 1, limit)
               ELSE items.items
    IN IF off >= Len(cut) THEN MakeSlice(<< >>) ELSE MakeSlice(SubSeq(cut, off + 1, Len(cut)))

\* applyPagination: both return paths build a new slice with make
applyPagination(items, limit, offset) ==
    LET off == IF offset < 0 THEN 0 ELSE offset
    IN IF off >= Len(items.items) THEN MakeSlice(<< >>)
       ELSE LET rest == SubSeq(items.items, off + 1, Len(items.items))
            IN IF limit > 0 /\ limit < Len(rest)
               THEN MakeSlice(SubSeq(rest, 1, limit))
               ELSE MakeSlice(rest)

RECURSIVE FilterColor(_, _)
\* the matching loop of GetByColor: var matched []domain.Person, appended to per match
FilterColor(items, color) ==
    IF Len(items) = 0 THEN NilSlice
    ELSE LET rest == FilterColor(Tail(items), color)
         IN IF items[1].Color = color THEN MakeSlice(<<items[1]>> \o rest.items) ELSE rest

\* body of PersonRepository.GetAll
GetAll(items, limit, offset) ==
    [err |-> "nil", person |-> NoPerson, list |-> applyPagination(MakeSlice(items), limit, offset)]

\* GetByColor that pages the whole list and filters the page
GetByColor_PageThenFilter(items, color, limit, offset) ==
    [err |-> "nil", person |-> NoPerson,
     list |-> MakeSlice(FilterColor(applyPagination(MakeSlice(items), limit, offset).items, color).items)]

\* body of PersonRepository.GetByColor
GetByColor(items, color, limit, offset) ==
    [err |-> "nil", person |-> NoPerson,
     list |-> applyPagination(FilterColor(items, color), limit, offset)]

\* GetByID that takes the ID for the position in the list
GetByID_ByPosition(items, id) ==
    IF id \in 1..Len(items)
    THEN [err |-> "nil", person |-> items[id], list |-> NilSlice]
    ELSE [err |-> "NotFound", person |-> NoPerson, list |-> NilSlice]

\* body of PersonRepository.GetByID: the first person in list order with that ID
GetByID(items, id) ==
    IF \E i \in 1..Len(items) : items[i].ID = id
    THEN [err |-> "nil",
          person |-> items[CHOOSE i \in 1..Len(items) :
                              items[i].ID = id /\ \A j \in 1..(i - 1) : items[j].ID # id],
          list |-> NilSlice]
    ELSE [err |-> "NotFound", person |-> NoPerson, list |-> NilSlice]

\* CapacityReached that lets one person more in
CapacityReached_OneMore(items, max) == max > 0 /\ Len(items) > max

\* capacity test of Add
CapacityReached(items, max) == max > 0 /\ Len(items) >= max

\* the callers of the memory repository at rest
ProcIdle ==
    /\ mu = [w |-> 0, readers |-> {}]
    /\ pc = [p \in Procs |-> "idle"]
    /\ call = [p \in Procs |-> NoCall]
    /\ ret = [p \in Procs |-> NoRet]
    /\ assigned = << >>
    /\ addLog = << >>

\* NewPersonRepository: the state after a successful load
InitMem ==
    /\ source \in Sources
    /\ maxPersons \in 0..MaxCap
    /\ persons = load(source).persons
    /\ nextID = load(source).nextID
    /\ dtos = load(source).dtos
    /\ loadedCount = Len(persons)

\* a caller enters Add(person)
AddCall(p) ==
    /\ pc[p] = "idle"
    /\ calls < MaxCalls
    /\ \E person \in AddArgs : call' = [call EXCEPT ![p] = [kind |-> "Add", arg |-> person, person |-> person]]
    /\ pc' = [pc EXCEPT ![p] = "add_lock"]
    /\ calls' = calls + 1
    /\ UNCHANGED <<refVars, decVars, newVars, svcVars, cfgVars, memVars, mu, ret, assigned, addLog, sqlVars, txVars, seqVars, normVars>>

\* AddLock without mutual exclusion: the lock is taken although another writer has it
AddLock_NoExclusion(p) ==
    /\ pc[p] = "add_lock"
    /\ mu' = [mu EXCEPT !.w = p]
    /\ pc' = [pc EXCEPT ![p] = "add_wait"]
    /\ UNCHANGED <<refVars, decVars, newVars, svcVars, cfgVars, memVars, call, ret, calls, assigned, addLog, sqlVars, txVars, seqVars, normVars>>

\* r.mu.Lock(): the writer takes the writer slot, which keeps later readers and writers out
AddLock(p) ==
    /\ pc[p] = "add_lock"
    /\ mu.w = 0
    /\ mu' = [mu EXCEPT !.w = p]
    /\ pc' = [pc EXCEPT ![p] = "add_wait"]
    /\ UNCHANGED <<refVars, decVars, newVars, svcVars, cfgVars, memVars, call, ret, calls, assigned, addLog, sqlVars, txVars, seqVars, normVars>>

\* r.mu.Lock() returns once the active readers have left
AddWait(p) ==
    /\ pc[p] = "add_wait"
    /\ mu.readers = {}
    /\ pc' = [pc EXCEPT ![p] = "add_check"]
    /\ UNCHANGED <<refVars, decVars, newVars, svcVars, cfgVars, memVars, mu, call, ret, calls, assigned, addLog, sqlVars, txVars, seqVars, normVars>>

\* AddCheck that uses up an ID when it rejects
AddCheck_BurnID(p) ==
    /\ pc[p] = "add_check"
    /\ IF CapacityReached(persons, maxPersons)
       THEN /\ ret' = [ret EXCEPT ![p] = [err |-> "CapacityReached", person |-> NoPerson,
                                          list |-> NilSlice]]
            /\ pc' = [pc EXCEPT ![p] = "add_unlock"]
            /\ nextID' = nextID + 1
       ELSE /\ pc' = [pc EXCEPT ![p] = "add_assign"]
            /\ UNCHANGED <<ret, nextID>>
    /\ UNCHANGED <<refVars, decVars, newVars, svcVars, cfgVars, persons, mu, call, calls, assigned, addLog, sqlVars, txVars, seqVars, normVars>>

\* the capacity check of Add
AddCheck(p) ==
    /\ pc[p] = "add_check"
    /\ IF CapacityReached(persons, maxPersons)
       THEN /\ ret' = [ret EXCEPT ![p] = [err |-> "CapacityReached", person |-> NoPerson,
                                          list |-> NilSlice]]
            /\ pc' = [pc EXCEPT ![p] = "add_unlock"]
       ELSE /\ pc' = [pc EXCEPT ![p] = "add_assign"]
            /\ UNCHANGED ret
    /\ UNCHANGED <<refVars, decVars, newVars, svcVars, cfgVars, memVars, mu, call, calls, assigned, addLog, sqlVars, txVars, seqVars, normVars>>

\* AddAssign that keeps an ID the caller has set
AddAssign_KeepCallerID(p) ==
    /\ pc[p] = "add_assign"
    /\ call' = [call EXCEPT ![p].person.ID = IF @ = 0 THEN nextID ELSE @]
    /\ assigned' = Append(assigned, nextID)
    /\ pc' = [pc EXCEPT ![p] = "add_incr"]
    /\ UNCHANGED <<refVars, decVars, newVars, svcVars, cfgVars, memVars, mu, ret, calls, addLog, sqlVars, txVars, seqVars, normVars>>

\* person.ID = r.nextID
AddAssign(p) ==
    /\ pc[p] = "add_assign"
    /\ call' = [call EXCEPT ![p].person.ID = nextID]
    /\ assigned' = Append(assigned, nextID)
    /\ pc' = [pc EXCEPT ![p] = "add_incr"]
    /\ UNCHANGED <<refVars, decVars, newVars, svcVars, cfgVars, memVars, mu, ret, calls, addLog, sqlVars, txVars, seqVars, normVars>>

\* r.nextID++
AddIncr(p) ==
    /\ pc[p] = "add_incr"
    /\ nextID' = nextID + 1
    /\ pc' = [pc EXCEPT ![p] = "add_append"]
    /\ UNCHANGED <<refVars, decVars, newVars, svcVars, cfgVars, persons, mu, call, ret, calls, assigned, addLog, sqlVars, txVars, seqVars, normVars>>

\* r.persons = append(r.persons, person); return person, nil
AddAppend(p) ==
    /\ pc[p] = "add_append"
    /\ persons' = Append(persons, call[p].person)
    /\ ret' = [ret EXCEPT ![p] = [err |-> "nil", person |-> call[p].person, list |-> NilSlice]]
    /\ pc' = [pc EXCEPT ![p] = "add_unlock"]
    /\ UNCHANGED <<refVars, decVars, newVars, svcVars, cfgVars, nextID, mu, call, calls, assigned, addLog, sqlVars, txVars, seqVars, normVars>>

\* AddUnlock that returns to the caller without releasing the lock
AddUnlock_NoRelease(p) ==
    /\ pc[p] = "add_unlock"
    /\ addLog' = Append(addLog, [proc |-> p, arg |-> call[p].arg, err |-> ret[p].err,
                                 person |-> ret[p].person])
    /\ pc' = [pc EXCEPT ![p] = "idle"]
    /\ call' = [call EXCEPT ![p] = NoCall]
    /\ ret' = [ret EXCEPT ![p] = NoRet]
    /\ UNCHANGED <<refVars, decVars, newVars, svcVars, cfgVars, memVars, mu, calls, assigned, sqlVars, txVars,
                   seqVars, normVars>>

\* the deferred r.mu.Unlock() of Add, then the return to the caller
AddUnlock(p) ==
    /\ pc[p] = "add_unlock"
    /\ mu' = [mu EXCEPT !.w = 0]
    /\ addLog' = Append(addLog, [proc |-> p, arg |-> call[p].arg, err |-> ret[p].err,
                                 person |-> ret[p].person])
    /\ pc' = [pc EXCEPT ![p] = "idle"]
    /\ call' = [call EXCEPT ![p] = NoCall]
    /\ ret' = [ret EXCEPT ![p] = NoRet]
    /\ UNCHANGED <<refVars, decVars, newVars, svcVars, cfgVars, memVars, calls, assigned, sqlVars, txVars, seqVars, normVars>>

\* a caller enters GetAll, GetByID or GetByColor
ReadCall(p) ==
    /\ pc[p] = "idle"
    /\ calls < MaxCalls
    /\ \E kind \in {"GetAll", "GetByID", "GetByColor"} :
          call' = [call EXCEPT ![p] = [kind |-> kind, arg |-> NoPerson, person |-> NoPerson]]
    /\ pc' = [pc EXCEPT ![p] = "rlock"]
    /\ calls' = calls + 1
    /\ UNCHANGED <<refVars, decVars, newVars, svcVars, cfgVars, memVars, mu, ret, assigned, addLog, sqlVars, txVars, seqVars, normVars>>

\* RLock that does not look at the writer
RLock_IgnoreWriter(p) ==
    /\ pc[p] = "rlock"
    /\ mu' = [mu EXCEPT !.readers = @ \cup {p}]
    /\ pc' = [pc EXCEPT ![p] = "read"]
    /\ UNCHANGED <<refVars, decVars, newVars, svcVars, cfgVars, memVars, call, ret, calls, assigned, addLog, sqlVars,
                   txVars, seqVars, normVars>>

\* r.mu.RLock(): blocked while a writer holds or waits for the lock
RLock(p) ==
    /\ pc[p] = "rlock"
    /\ mu.w = 0
    /\ mu' = [mu EXCEPT !.readers = @ \cup {p}]
    /\ pc' = [pc EXCEPT ![p] = "read"]
    /\ UNCHANGED <<refVars, decVars, newVars, svcVars, cfgVars, memVars, call, ret, calls, assigned, addLog, sqlVars, txVars, seqVars, normVars>>

\* PersonRepository.GetAll under the read lock
GetAllBody(p) ==
    /\ pc[p] = "read"
    /\ call[p].kind = "GetAll"
    /\ \E limit \in 0..1, offset \in 0..1 : ret' = [ret EXCEPT ![p] = GetAll(persons, limit, offset)]
    /\ pc' = [pc EXCEPT ![p] = "runlock"]
    /\ UNCHANGED <<refVars, decVars, newVars, svcVars, cfgVars, memVars, mu, call, calls, assigned, addLog, sqlVars, txVars, seqVars, normVars>>

\* PersonRepository.GetByID under the read lock
GetByIDBody(p) ==
    /\ pc[p] = "read"
    /\ call[p].kind = "GetByID"
    /\ \E id \in 1..2 : ret' = [ret EXCEPT ![p] = GetByID(persons, id)]
    /\ pc' = [pc EXCEPT ![p] = "runlock"]
    /\ UNCHANGED <<refVars, decVars, newVars, svcVars, cfgVars, memVars, mu, call, calls, assigned, addLog, sqlVars, txVars, seqVars, normVars>>

\* PersonRepository.GetByColor under the read lock
GetByColorBody(p) ==
    /\ pc[p] = "read"
    /\ call[p].kind = "GetByColor"
    /\ \E color \in QueryColors : ret' = [ret EXCEPT ![p] = GetByColor(persons, color, 0, 0)]
    /\ pc' = [pc EXCEPT ![p] = "runlock"]
    /\ UNCHANGED <<refVars, decVars, newVars, svcVars, cfgVars, memVars, mu, call, calls, assigned, addLog, sqlVars, txVars, seqVars, normVars>>

\* the deferred r.mu.RUnlock() of a read, then the return to the caller
RUnlock(p) ==
    /\ pc[p] = "runlock"
    /\ mu' = [mu EXCEPT !.readers = @ \ {p}]
    /\ pc' = [pc EXCEPT ![p] = "idle"]
    /\ call' = [call EXCEPT ![p] = NoCall]
    /\ ret' = [ret EXCEPT ![p] = NoRet]
    /\ UNCHANGED <<refVars, decVars, newVars, svcVars, cfgVars, memVars, calls, assigned, addLog, sqlVars, txVars, seqVars, normVars>>

\* ------------------------------------------------------------------------
\* SQL repository (package sqlite)
\* ------------------------------------------------------------------------

\* NewPersonRepository: CREATE TABLE IF NOT EXISTS on a new database
SqlEmpty ==
    /\ table = {}
    /\ sqlSeq = 0

\* the callers of the SQL Add at rest
TxIdle ==
    /\ tpc = [p \in Procs |-> "idle"]
    /\ tlock = [p \in Procs |-> "none"]
    /\ tcount = [p \in Procs |-> 0]
    /\ tperson = [p \in Procs |-> NoPerson]
    /\ tret = [p \in Procs |-> NoRet]
    /\ leaked = FALSE
    /\ sqlLog = << >>

\* SELECT COUNT(*) FROM persons
SqlCountRows(rows) == Cardinality(rows)

\* key of the next inserted row: INTEGER PRIMARY KEY AUTOINCREMENT
SqlNextKey(seq) == seq + 1

\* The connections of the pool share one database file in SQLite's default
\* rollback-journal mode without a busy timeout: a read takes a SHARED lock
\* that the transaction keeps, a write needs the RESERVED lock, which one
\* connection can hold, a commit needs that no other connection holds a
\* SHARED lock, and a lock that cannot be had fails the statement with BUSY.

\* a SHARED lock can be taken unless a writer is waiting to commit
CanShare(p) == ~leaked

\* the RESERVED lock can be taken unless another connection has it
CanReserve(p) == ~leaked /\ \A q \in Procs \ {p} : tlock[q] # "reserved"

\* the commit can go ahead unless another connection still reads
CanCommit(p) == \A q \in Procs \ {p} : tlock[q] = "none"

\* a caller enters the SQL Add(person)
SqlAddCall(p) ==
    /\ tpc[p] = "idle"
    /\ calls < MaxCalls
    /\ \E person \in AddArgs : tperson' = [tperson EXCEPT ![p] = person]
    /\ tpc' = [tpc EXCEPT ![p] = "begin"]
    /\ calls' = calls + 1
    /\ UNCHANGED <<refVars, decVars, newVars, svcVars, cfgVars, memVars, procVars, sqlVars, tlock, tcount, tret, leaked, sqlLog,
                   seqVars, normVars>>

\* r.db.BeginTx(ctx, nil): a deferred transaction, no lock yet
SqlBegin(p) ==
    /\ tpc[p] = "begin"
    /\ tpc' = [tpc EXCEPT ![p] = IF maxPersons > 0 THEN "count" ELSE "insert"]
    /\ UNCHANGED <<refVars, decVars, newVars, svcVars, cfgVars, memVars, procVars, calls, sqlVars, tlock, tcount, tperson, tret,
                   leaked, sqlLog, seqVars, normVars>>

\* the count is read outside the transaction: its SHARED lock is gone when it returns
SqlCount_OutsideTx(p) ==
    /\ tpc[p] = "count"
    /\ tcount' = [tcount EXCEPT ![p] = SqlCountRows(table)]
    /\ IF SqlCountRows(table) >= maxPersons
       THEN /\ tret' = [tret EXCEPT ![p] = [err |-> "CapacityReached", person |-> NoPerson,
                                            list |-> NilSlice]]
            /\ tpc' = [tpc EXCEPT ![p] = "return"]
       ELSE /\ tpc' = [tpc EXCEPT ![p] = "insert"]
            /\ UNCHANGED tret
    /\ UNCHANGED <<refVars, decVars, newVars, svcVars, cfgVars, memVars, procVars, calls, sqlVars, tlock, tperson, leaked, sqlLog,
                   seqVars, normVars>>

\* tx.QueryRowContext(SELECT COUNT(*)).Scan(&count) and the capacity test
SqlCount(p) ==
    /\ tpc[p] = "count"
    /\ IF ~CanShare(p)
       THEN /\ tret' = [tret EXCEPT ![p] = [err |-> "Busy", person |-> NoPerson, list |-> NilSlice]]
            /\ tpc' = [tpc EXCEPT ![p] = "return"]
            /\ UNCHANGED <<tlock, tcount>>
       ELSE /\ tlock' = [tlock EXCEPT ![p] = "shared"]
            /\ tcount' = [tcount EXCEPT ![p] = SqlCountRows(table)]
            /\ IF SqlCountRows(table) >= maxPersons
               THEN /\ tret' = [tret EXCEPT ![p] = [err |-> "CapacityReached", person |-> NoPerson,
                                                    list |-> NilSlice]]
                    /\ tpc' = [tpc EXCEPT ![p] = "return"]
               ELSE /\ tpc' = [tpc EXCEPT ![p] = "insert"]
                    /\ UNCHANGED tret
    /\ UNCHANGED <<refVars, decVars, newVars, svcVars, cfgVars, memVars, procVars, calls, sqlVars, tperson, leaked, sqlLog,
                   seqVars, normVars>>

\* SqlInsert that runs the INSERT on the database instead of the transaction:
\* the row is written at once and no lock is kept
SqlInsert_OutsideTx(p) ==
    /\ tpc[p] = "insert"
    /\ IF ~CanReserve(p)
       THEN /\ tret' = [tret EXCEPT ![p] = [err |-> "Busy", person |-> NoPerson, list |-> NilSlice]]
            /\ tpc' = [tpc EXCEPT ![p] = "return"]
            /\ UNCHANGED <<tperson, sqlVars>>
       ELSE /\ tperson' = [tperson EXCEPT ![p].ID = SqlNextKey(sqlSeq)]
            /\ table' = table \cup {[tperson[p] EXCEPT !.ID = SqlNextKey(sqlSeq)]}
            /\ sqlSeq' = SqlNextKey(sqlSeq)
            /\ tpc' = [tpc EXCEPT ![p] = "commit"]
            /\ UNCHANGED tret
    /\ UNCHANGED <<refVars, decVars, newVars, svcVars, cfgVars, memVars, procVars, calls, tlock, tcount, leaked, sqlLog,
                   seqVars, normVars>>

\* tx.ExecContext(INSERT ...) and person.ID = int(res.LastInsertId())
SqlInsert(p) ==
    /\ tpc[p] = "insert"
    /\ IF ~CanReserve(p)
       THEN /\ tret' = [tret EXCEPT ![p] = [err |-> "Busy", person |-> NoPerson, list |-> NilSlice]]
            /\ tpc' = [tpc EXCEPT ![p] = "return"]
            /\ UNCHANGED <<tlock, tperson>>
       ELSE /\ tlock' = [tlock EXCEPT ![p] = "reserved"]
            /\ tperson' = [tperson EXCEPT ![p].ID = SqlNextKey(sqlSeq)]
            /\ tpc' = [tpc EXCEPT ![p] = "commit"]
            /\ UNCHANGED tret
    /\ UNCHANGED <<refVars, decVars, newVars, svcVars, cfgVars, memVars, procVars, calls, sqlVars, tcount, leaked, sqlLog,
                   seqVars, normVars>>

\* tx.Commit(): the row and the key counter become visible, the locks are dropped
SqlCommit(p) ==
    /\ tpc[p] = "commit"
    /\ CanCommit(p)
    /\ table' = table \cup {tperson[p]}
    /\ sqlSeq' = tperson[p].ID
    /\ tlock' = [tlock EXCEPT ![p] = "none"]
    /\ tret' = [tret EXCEPT ![p] = [err |-> "nil", person |-> tperson[p], list |-> NilSlice]]
    /\ tpc' = [tpc EXCEPT ![p] = "return"]
    /\ UNCHANGED <<refVars, decVars, newVars, svcVars, cfgVars, memVars, procVars, calls, tcount, tperson, leaked, sqlLog,
                   seqVars, normVars>>

\* tx.Commit() fails with BUSY while another connection reads.  database/sql
\* then treats the transaction as finished, so the deferred Rollback does
\* nothing: either the driver has rolled back, or the connection returns to
\* the pool with the write transaction open and its lock in place.
SqlCommitBusy(p) ==
    /\ tpc[p] = "commit"
    /\ ~CanCommit(p)
    /\ \E rolledBack \in BOOLEAN : leaked' = ~rolledBack
    /\ tlock' = [tlock EXCEPT ![p] = "none"]
    /\ tret' = [tret EXCEPT ![p] = [err |-> "Busy", person |-> NoPerson, list |-> NilSlice]]
    /\ tpc' = [tpc EXCEPT ![p] = "return"]
    /\ UNCHANGED <<refVars, decVars, newVars, svcVars, cfgVars, memVars, procVars, calls, sqlVars, tcount, tperson, sqlLog,
                   seqVars, normVars>>

\* BeginTx, the count, the INSERT, LastInsertId or Commit returns an error that
\* does not come from the locks (a cancelled context, an I/O error): the Add
\* returns it, and the transaction, if it was begun, is rolled back
SqlStepFails(p) ==
    /\ tpc[p] \in {"begin", "count", "insert", "commit"}
    /\ tret' = [tret EXCEPT ![p] = [err |-> "Failed", person |-> NoPerson, list |-> NilSlice]]
    /\ tpc' = [tpc EXCEPT ![p] = "return"]
    /\ UNCHANGED <<refVars, decVars, newVars, svcVars, cfgVars, memVars, procVars, calls, sqlVars, tlock, tcount, tperson,
                   leaked, sqlLog, seqVars, normVars>>

\* the deferred tx.Rollback() (drops the locks of an unfinished transaction), then the return
SqlReturn(p) ==
    /\ tpc[p] = "return"
    /\ tlock' = [tlock EXCEPT ![p] = "none"]
    /\ sqlLog' = Append(sqlLog, [proc |-> p, err |-> tret[p].err, person |-> tret[p].person,
                                 count |-> tcount[p]])
    /\ tpc' = [tpc EXCEPT ![p] = "idle"]
    /\ tcount' = [tcount EXCEPT ![p] = 0]
    /\ tperson' = [tperson EXCEPT ![p] = NoPerson]
    /\ tret' = [tret EXCEPT ![p] = NoRet]
    /\ UNCHANGED <<refVars, decVars, newVars, svcVars, cfgVars, memVars, procVars, calls, sqlVars, leaked, seqVars, normVars>>

\* a memory repository loaded from an empty file
MemEmpty ==
    /\ source = << >>
    /\ dtos = << >>
    /\ loadedCount = 0
    /\ persons = << >>
    /\ nextID = 1

InitSql ==
    /\ maxPersons \in 0..MaxCap
    /\ MemEmpty
    /\ ProcIdle
    /\ RefIdle
    /\ calls = 0
    /\ SqlEmpty
    /\ TxIdle
    /\ SeqIdle
    /\ NormIdle
    /\ DecIdle
    /\ NewDone
    /\ SvcIdle

NextSql ==
    \E p \in Procs :
        \/ SqlAddCall(p)
        \/ SqlBegin(p)
        \/ SqlCount(p)
        \/ SqlInsert(p)
        \/ SqlCommit(p)
        \/ SqlCommitBusy(p)
        \/ SqlStepFails(p)
        \/ SqlReturn(p)

\* the SQL repository under concurrent Add calls
SpecSql == InitSql /\ [][NextSql]_vars

\* C2: with maxPersons = N > 0 the table never holds more than N rows and no
\* more than N Adds commit; in particular two Adds that both counted N-1 rows
\* never both commit.
C2_NoDoubleCommit ==
    maxPersons > 0 =>
        /\ Cardinality(table) <= maxPersons
        /\ Cardinality({k \in 1..Len(sqlLog) : sqlLog[k].err = "nil"}) <= maxPersons
        /\ \A p, q \in Procs :
              (p # q /\ tcount[p] = maxPersons - 1 /\ tcount[q] = maxPersons - 1
                 /\ tpc[p] = "return" /\ tpc[q] = "return")
              => ~(tret[p].err = "nil" /\ tret[q].err = "nil")

\* with one row stored and room for two, two Adds both counted one row; one of
\* them committed and the other was refused by the engine
C2_Witness ==
    /\ maxPersons = 2
    /\ Cardinality(table) = 2
    /\ \E p, q \in Procs :
          /\ p # q
          /\ tpc[p] = "return" /\ tpc[q] = "return"
          /\ tcount[p] = 1 /\ tcount[q] = 1
          /\ tret[p].err = "nil"
          /\ tret[q].err = "Busy"

\* number of Adds that have come back from a successful commit
Committed ==
    Cardinality({k \in 1..Len(sqlLog) : sqlLog[k].err = "nil"})
        + Cardinality({p \in Procs : tpc[p] = "return" /\ tret[p].err = "nil"})

\* the row of an Add that has inserted and not committed is not in the table,
\* the person an Add returns is a row of the table, an Add that returns an
\* error returns no person, and the table holds one row for each Add that
\* came back from a successful commit
CommittedOnly ==
    /\ \A p \in Procs :
          /\ tpc[p] = "commit" => tperson[p] \notin table
          /\ (tpc[p] = "return" /\ tret[p].err = "nil") => tret[p].person \in table
          /\ (tpc[p] = "return" /\ tret[p].err # "nil") => tret[p].person = NoPerson
    /\ \A k \in 1..Len(sqlLog) :
          IF sqlLog[k].err = "nil" THEN sqlLog[k].person \in table
          ELSE sqlLog[k].person = NoPerson
    /\ Cardinality(table) = Committed

\* a step in which a call fails leaves the table as it is, and the table
\* changes only by the row of a call whose commit succeeds in that step
FailureKeepsTable ==
    /\ \A p \in Procs :
          (tret[p].err = "none" /\ tret'[p].err \notin {"none", "nil"}) => table' = table
    /\ table' # table =>
          \E p \in Procs :
              /\ tpc[p] = "commit"
              /\ tret'[p].err = "nil"
              /\ tret'[p].person = tperson[p]
              /\ table' = table \cup {tperson[p]}

\* C24: an SQL Add in which a step fails (begin, count, capacity check,
\* insert, reading the key, commit) returns an error and no person and adds
\* no row to the table; a row is in the table only after the commit of its
\* Add has succeeded, and an Add that returns a person has committed its row.
C24_AddAllOrNothing == []CommittedOnly /\ [][FailureKeepsTable]_vars

\* an Add has inserted its row with key 1 and its commit was refused because
\* another Add still read: it is about to return the error, the table is empty
C24_Witness ==
    /\ table = {}
    /\ \E p \in Procs :
          /\ tpc[p] = "return"
          /\ tret[p].err = "Busy"
          /\ tperson[p].Name = <<"N">>
          /\ tperson[p].ID = 1

\* ------------------------------------------------------------------------
\* SQL queries (package sqlite)
\* ------------------------------------------------------------------------

RECURSIVE OrderByID(_)
\* ORDER BY id
OrderByID(rows) ==
    IF rows = {} THEN << >>
    ELSE LET first == CHOOSE r \in rows : \A o \in rows : r.ID <= o.ID
         IN <<first>> \o OrderByID(rows \ {first})

\* LIMIT limit OFFSET offset as SQLite evaluates it: a negative limit is no
\* limit, a negative offset is no offset
SqlLimitOffset(rows, limit, offset) ==
    LET off  == IF offset < 0 THEN 0 ELSE offset
        rest == IF off >= Len(rows) THEN << >> ELSE SubSeq(rows, off + 1, Len(rows))
    IN IF limit >= 0 /\ limit < Len(rest) THEN SubSeq(rest, 1, limit) ELSE rest

clampOffset(offset) == IF offset < 0 THEN 0 ELSE offset

\* SqlPage without the LIMIT -1 branch: no clause at all unless limit > 0
SqlPage_NoOffsetOnly(rows, limit, offset) ==
    IF limit > 0 THEN SqlLimitOffset(rows, limit, clampOffset(offset))
    ELSE rows

\* SqlPage that adds LIMIT ? OFFSET ? also for a limit of 0
SqlPage_ZeroLimit(rows, limit, offset) ==
    IF limit >= 0 THEN SqlLimitOffset(rows, limit, clampOffset(offset))
    ELSE IF offset > 0 THEN SqlLimitOffset(rows, 0 - 1, clampOffset(offset))
    ELSE rows

\* the LIMIT/OFFSET clause GetAll and GetByColor add to the query
SqlPage(rows, limit, offset) ==
    IF limit > 0 THEN SqlLimitOffset(rows, limit, clampOffset(offset))
    ELSE IF offset > 0 THEN SqlLimitOffset(rows, 0 - 1, clampOffset(offset))
    ELSE rows

\* queryPersons: the rows collected into a slice made with make
queryPersons(rows) == [err |-> "nil", person |-> NoPerson, list |-> MakeSlice(rows)]

\* sqlite PersonRepository.GetAll
SqlGetAll(rows, limit, offset) == queryPersons(SqlPage(OrderByID(rows), limit, offset))

\* sqlite PersonRepository.GetByColor
SqlGetByColor(rows, color, limit, offset) ==
    queryPersons(SqlPage(OrderByID({r \in rows : r.Color = color}), limit, offset))

\* sqlite PersonRepository.GetByID
SqlGetByID(rows, id) ==
    IF \E r \in rows : r.ID = id
    THEN [err |-> "nil", person |-> CHOOSE r \in rows : r.ID = id, list |-> NilSlice]
    ELSE [err |-> "NotFound", person |-> NoPerson, list |-> NilSlice]

\* sqlite PersonRepository.Add run alone: begin, count, insert, commit
SqlAdd(rows, seq, max, person) ==
    IF max > 0 /\ SqlCountRows(rows) >= max
    THEN [table |-> rows, sqlSeq |-> seq,
          ret |-> [err |-> "CapacityReached", person |-> NoPerson, list |-> NilSlice]]
    ELSE LET row == [person EXCEPT !.ID = SqlNextKey(seq)]
         IN [table |-> rows \cup {row}, sqlSeq |-> row.ID,
             ret |-> [err |-> "nil", person |-> row, list |-> NilSlice]]

\* MemAdd that makes room at the capacity limit by dropping the oldest person
MemAdd_EvictOldest(items, next, max, person) ==
    LET stored == [person EXCEPT !.ID = next]
        kept   == IF CapacityReached(items, max) THEN Tail(items) ELSE items
    IN [persons |-> Append(kept, stored), nextID |-> next + 1,
        ret |-> [err |-> "nil", person |-> stored, list |-> NilSlice]]

\* csv PersonRepository.Add run alone
MemAdd(items, next, max, person) ==
    IF CapacityReached(items, max)
    THEN [persons |-> items, nextID |-> next,
          ret |-> [err |-> "CapacityReached", person |-> NoPerson, list |-> NilSlice]]
    ELSE LET stored == [person EXCEPT !.ID = next]
         IN [persons |-> Append(items, stored), nextID |-> next + 1,
             ret |-> [err |-> "nil", person |-> stored, list |-> NilSlice]]

\* ------------------------------------------------------------------------
\* Sequential run: one caller puts every call to both repositories
\* ------------------------------------------------------------------------

MaxPage == 4
MaxID   == 5

PageArgs == (0 - 1)..MaxPage

\* the caller puts one query after a successful construction and after every Add
QueryTurn == newErr = "nil" /\ qry.kind \in {"none", "Add"}

SeqAdd ==
    /\ calls < MaxCalls
    /\ \E person \in AddArgs :
          LET m == MemAdd(persons, nextID, maxPersons, person)
              q == SqlAdd(table, sqlSeq, maxPersons, person)
          IN /\ persons' = m.persons
             /\ nextID' = m.nextID
             /\ memRet' = m.ret
             /\ table' = q.table
             /\ sqlSeq' = q.sqlSeq
             /\ sqlRet' = q.ret
             /\ qry' = [NoQry EXCEPT !.kind = "Add", !.person = person]
    /\ calls' = calls + 1
    /\ UNCHANGED <<refVars, decVars, newVars, svcVars, cfgVars, procVars, txVars, normVars>>

SeqGetAll ==
    /\ QueryTurn
    /\ \E limit \in PageArgs, offset \in PageArgs :
          /\ qry' = [NoQry EXCEPT !.kind = "GetAll", !.limit = limit, !.offset = offset]
          /\ memRet' = GetAll(persons, limit, offset)
          /\ sqlRet' = SqlGetAll(table, limit, offset)
    /\ UNCHANGED <<refVars, decVars, newVars, svcVars, cfgVars, memVars, procVars, calls, sqlVars, txVars, normVars>>

SeqGetByColor ==
    /\ QueryTurn
    /\ \E color \in QueryColors \cup {"gelb"}, limit \in PageArgs, offset \in PageArgs :
          /\ qry' = [NoQry EXCEPT !.kind = "GetByColor", !.color = color, !.limit = limit,
                                  !.offset = offset]
          /\ memRet' = GetByColor(persons, color, limit, offset)
          /\ sqlRet' = SqlGetByColor(table, color, limit, offset)
    /\ UNCHANGED <<refVars, decVars, newVars, svcVars, cfgVars, memVars, procVars, calls, sqlVars, txVars, normVars>>

SeqGetByID ==
    /\ QueryTurn
    /\ \E id \in (0 - 1)..MaxID :
          /\ qry' = [NoQry EXCEPT !.kind = "GetByID", !.id = id]
          /\ memRet' = GetByID(persons, id)
          /\ sqlRet' = SqlGetByID(table, id)
    /\ UNCHANGED <<refVars, decVars, newVars, svcVars, cfgVars, memVars, procVars, calls, sqlVars, txVars, normVars>>

InitSeq ==
    /\ InitMem
    /\ ProcIdle
    /\ RefIdle
    /\ calls = 0
    /\ SqlEmpty
    /\ TxIdle
    /\ SeqIdle
    /\ NormIdle
    /\ DecIdle
    /\ NewDone
    /\ SvcIdle

NextSeq ==
    \/ SeqAdd
    \/ SeqGetAll
    \/ SeqGetByColor
    \/ SeqGetByID

SpecSeq == InitSeq /\ [][NextSeq]_vars

\* the persons of a list, as a set
Stored(items) == {items[i] : i \in 1..Len(items)}

\* list is the page (limit, offset) of rows in ascending ID order: it is
\* present, it has min(max(N - max(offset,0), 0), limit or all) elements, and
\* its n-th element is the row with exactly max(offset,0) + n - 1 rows of
\* smaller ID
IsPageOf(list, rows, limit, offset) ==
    LET N   == Cardinality(rows)
        off == IF offset < 0 THEN 0 ELSE offset
        avl == IF N - off > 0 THEN N - off ELSE 0
        cnt == IF limit > 0 /\ limit < avl THEN limit ELSE avl
    IN /\ list.present
       /\ Len(list.items) = cnt
       /\ \A n \in 1..cnt :
             /\ list.items[n] \in rows
             /\ Cardinality({r \in rows : r.ID < list.items[n].ID}) = off + n - 1

\* C5: GetAll(limit, offset) of the memory repository returns, without an
\* error, the page of all stored persons in ascending ID order that starts at
\* index max(offset,0) and has min(max(N - max(offset,0), 0), limit if
\* limit > 0 else unbounded) elements.
C5_GetAllPagination ==
    qry.kind = "GetAll" =>
        /\ memRet.err = "nil"
        /\ IsPageOf(memRet.list, Stored(persons), qry.limit, qry.offset)
        /\ (IF qry.offset < 0 THEN 0 ELSE qry.offset) >= Len(persons) => memRet.list.items = << >>

\* three persons stored, GetAll(1, 1) returned the second one
C5_Witness ==
    /\ qry.kind = "GetAll"
    /\ qry.limit = 1
    /\ qry.offset = 1
    /\ Len(persons) = 3
    /\ memRet.list.items = <<persons[2]>>

\* C6: GetByColor(color, limit, offset) returns, in both variants and without
\* an error, the page (limit, offset) of the stored persons whose color equals
\* the argument; the list is present also when it is empty.
C6_GetByColorFilterThenPage ==
    qry.kind = "GetByColor" =>
        /\ memRet.err = "nil"
        /\ IsPageOf(memRet.list, {r \in Stored(persons) : r.Color = qry.color}, qry.limit, qry.offset)
        /\ sqlRet.err = "nil"
        /\ IsPageOf(sqlRet.list, {r \in table : r.Color = qry.color}, qry.limit, qry.offset)

\* the first stored person has another color; offset 1 skipped the first match
C6_Witness ==
    /\ qry.kind = "GetByColor"
    /\ qry.offset = 1
    /\ Len(persons) >= 3
    /\ persons[1].Color # qry.color
    /\ persons[2].Color = qry.color
    /\ Len(memRet.list.items) >= 1
    /\ memRet.list.items[1] = persons[3]

C8_GetByID ==
    qry.kind = "GetByID" =>
        /\ IF \E r \in Stored(persons) : r.ID = qry.id
           THEN memRet.err = "nil" /\ memRet.person \in Stored(persons) /\ memRet.person.ID = qry.id
           ELSE memRet.err = "NotFound" /\ memRet.person = NoPerson
        /\ IF \E r \in table : r.ID = qry.id
           THEN sqlRet.err = "nil" /\ sqlRet.person \in table /\ sqlRet.person.ID = qry.id
           ELSE sqlRet.err = "NotFound" /\ sqlRet.person = NoPerson

\* the load skipped record 1: ID 2 is the first list element of the memory
\* repository, ID 1 is not stored there but is a row of the table
C8_Witness ==
    /\ qry.kind = "GetByID"
    /\ loadedCount = 1
    /\ persons[1].ID = 2
    /\ \/ qry.id = 2 /\ memRet.person = persons[1] /\ sqlRet.err = "NotFound"
       \/ qry.id = 1 /\ memRet.err = "NotFound" /\ sqlRet.err = "nil"

\* the rows the query of the last call selects before LIMIT and OFFSET
ResultSet == IF qry.kind = "GetAll" THEN table ELSE {r \in table : r.Color = qry.color}

\* C23: GetAll and GetByColor of the SQL repository return, without an error
\* also for a negative offset, consecutive rows of the result set in ascending
\* ID order starting at row max(offset,0) (rows counted from 0): at most limit
\* of them, and all there are up to limit, when limit > 0; all rows from row
\* offset on when limit <= 0 and offset > 0; all N rows when limit <= 0 and
\* offset <= 0.
C23_SqlPagination ==
    qry.kind \in {"GetAll", "GetByColor"} =>
        LET N       == Cardinality(ResultSet)
            list    == sqlRet.list.items
            start   == IF qry.offset > 0 THEN qry.offset ELSE 0
            RowNo(r) == Cardinality({o \in ResultSet : o.ID < r.ID})
            after   == IF N > start THEN N - start ELSE 0
        IN /\ sqlRet.err = "nil"
           /\ \A n \in 1..Len(list) : list[n] \in ResultSet /\ RowNo(list[n]) = start + n - 1
           /\ IF qry.limit > 0
              THEN Len(list) = (IF qry.limit < after THEN qry.limit ELSE after)
              ELSE IF qry.offset > 0
                   THEN Len(list) = after
                   ELSE Len(list) = N

\* three rows: GetAll(2, -1) returned rows 1 and 2, GetAll(0, 2) the third
\* row, GetAll(-1, 0) all three
C23_Witness ==
    /\ qry.kind = "GetAll"
    /\ Cardinality(table) = 3
    /\ \/ qry.limit = 2 /\ qry.offset = 0 - 1 /\ Len(sqlRet.list.items) = 2
             /\ sqlRet.list.items[1].ID = 1
       \/ qry.limit = 0 /\ qry.offset = 2 /\ Len(sqlRet.list.items) = 1
             /\ sqlRet.list.items[1].ID = 3
       \/ qry.limit = 0 - 1 /\ qry.offset = 0 /\ Len(sqlRet.list.items) = 3

\* C16: every step keeps what is stored: GetByID of the ID of every stored
\* person returns the same person after the step as before it, in both
\* variants, and neither the list nor the table gets shorter.
C16_AppendOnly ==
    [][/\ \A k \in 1..Len(persons) :
             GetByID(persons', persons[k].ID) = GetByID(persons, persons[k].ID)
       /\ Len(persons') >= Len(persons)
       /\ \A r \in table : SqlGetByID(table', r.ID) = SqlGetByID(table, r.ID)
       /\ Cardinality(table') >= Cardinality(table)]_vars

\* a loaded person is returned unchanged by GetByID after two Adds, and so is
\* the first row of the table
C16_Witness ==
    /\ loadedCount >= 1
    /\ Len(persons) = loadedCount + 2
    /\ Cardinality(table) = 2
    /\ qry.kind = "GetByID"
    /\ qry.id = 1
    /\ persons[1].ID = 1
    /\ memRet.person = persons[1]
    /\ sqlRet.person \in table

\* ------------------------------------------------------------------------
\* Normalizer run: normalizeCSV line by line on generated inputs
\* ------------------------------------------------------------------------

MaxLines == 3
MaxToks  == 5
LongToks == 8

\* token counts of the generated lines: short lines and one long line
TokCounts == (0..MaxToks) \cup {LongToks}

LineLetters == <<"a", "b", "c", "d", "e", "f">>
TokDigits   == <<"1", "2", "3", "4", "5", "6", "7", "8", "9">>

\* the k-th token of line l; no two tokens of an input are equal
Token(l, k) == <<LineLetters[l], TokDigits[k]>>

TokensOf(l, t) == [k \in 1..t |-> Token(l, k)]

\* "plain" is a1,a2,a3; "spaced" is "a1, a2, a3, " with a blank last part
Styles == {"plain", "spaced"}

LineText(l, t, style) ==
    IF style = "plain" THEN Join(TokensOf(l, t), <<",">>)
    ELSE IF t = 0 THEN <<" ", ",", " ">>
    ELSE Join(TokensOf(l, t), <<",", " ">>) \o <<",", " ">>

RECURSIVE FileText(_, _, _)
\* the lines of a shape, each followed by the line terminator
FileText(sh, l, term) ==
    IF l > Len(sh) THEN << >>
    ELSE LineText(l, sh[l].t, sh[l].style) \o term \o FileText(sh, l + 1, term)

Shapes == UNION {[1..n -> [t : TokCounts, style : Styles]] : n \in 0..MaxLines}

Terminators == {<<"\n">>, <<"\r", "\n">>}

RECURSIVE MixedText(_, _)
\* the lines of a shape, the odd ones ended by LF and the even ones by CRLF
MixedText(sh, l) ==
    IF l > Len(sh) THEN << >>
    ELSE LineText(l, sh[l].t, sh[l].style) \o (IF l % 2 = 1 THEN <<"\n">> ELSE <<"\r", "\n">>)
            \o MixedText(sh, l + 1)

InitNorm ==
    /\ shape \in Shapes
    /\ \/ \E term \in Terminators : data = FileText(shape, 1, term)
       \/ data = MixedText(shape, 1)
    /\ lines = PhysicalLines(data)
    /\ lineNo = 0
    /\ accumulated = << >>
    /\ records = <<Header>>
    /\ hist = << >>
    /\ out = << >>
    /\ normErr = "none"
    /\ maxPersons = 0
    /\ MemEmpty
    /\ ProcIdle
    /\ RefIdle
    /\ calls = 0
    /\ SqlEmpty
    /\ TxIdle
    /\ SeqIdle
    /\ DecIdle
    /\ NewDone
    /\ SvcIdle

\* the fields the guard logs as discarded when the line comes: the accumulator,
\* if it is not empty and the line has 4 or more non-empty parts
Dropped(acc, line) ==
    IF Len(acc) > 0 /\ countNonEmpty(Split(line, ",")) >= 4 THEN acc ELSE << >>

\* one iteration of the loop over lines
NormStep ==
    /\ lineNo < Len(lines)
    /\ LET st == NormLine([accumulated |-> accumulated, records |-> records], lines[lineNo + 1])
       IN /\ accumulated' = st.accumulated
          /\ records' = st.records
          /\ hist' = Append(hist, [acc |-> st.accumulated, nrec |-> Len(st.records),
                                   dropped |-> Dropped(accumulated, lines[lineNo + 1])])
    /\ lineNo' = lineNo + 1
    /\ UNCHANGED <<refVars, decVars, newVars, svcVars, cfgVars, memVars, procVars, calls, sqlVars, txVars, seqVars, shape, data, lines, out, normErr>>

\* after the loop: the leftover tokens are only logged, the records are written
\* to a bytes.Buffer through a csv.Writer with the default comma, which reports
\* no error, and the buffer is returned
NormFinish ==
    /\ lineNo = Len(lines)
    /\ normErr = "none"
    /\ out' = WriteAll(NormEnd([accumulated |-> accumulated, records |-> records]))
    /\ normErr' = "nil"
    /\ UNCHANGED <<refVars, decVars, newVars, svcVars, cfgVars, memVars, procVars, calls, sqlVars, txVars, seqVars, shape, data, lines,
                   lineNo, accumulated, records, hist>>

NextNorm ==
    \/ NormStep
    \/ NormFinish

SpecNorm == InitNorm /\ [][NextNorm]_vars

RECURSIVE TokenCount(_, _, _)
\* number of tokens the lines i..j of the shape contribute
TokenCount(sh, i, j) == IF i > j THEN 0 ELSE sh[i].t + TokenCount(sh, i + 1, j)

RECURSIVE TokensOfLines(_, _, _)
\* the tokens of the lines i..j of the shape in input order
TokensOfLines(sh, i, j) ==
    IF i > j THEN << >> ELSE TokensOf(i, sh[i].t) \o TokensOfLines(sh, i + 1, j)

AccBefore(i) == IF i = 1 THEN << >> ELSE hist[i - 1].acc
RecsBefore(i) == IF i = 1 THEN 1 ELSE hist[i - 1].nrec

\* C10: when the accumulator is empty before line i and the lines i..j each
\* contribute fewer than 4 tokens and together exactly 4, the last of them
\* arriving with line j, then no record is emitted for the lines before j,
\* exactly one is emitted for line j, its four fields are the 4 tokens in
\* input order, and the accumulator is empty after line j.
C10_MultiLineMerge ==
    \A i, j \in 1..Len(shape) :
        (/\ i <= j
         /\ j <= lineNo
         /\ AccBefore(i) = << >>
         /\ \A k \in i..j : shape[k].t < 4
         /\ shape[j].t >= 1
         /\ TokenCount(shape, i, j) = 4)
        => /\ \A k \in i..(j - 1) : hist[k].nrec = RecsBefore(i)
           /\ hist[j].nrec = RecsBefore(i) + 1
           /\ records[hist[j].nrec] = TokensOfLines(shape, i, j)
           /\ hist[j].acc = << >>

\* "a1, \nb1\nc1,c2" and the like: three lines with 1, 1 and 2 tokens gave one record
C10_Witness ==
    /\ Len(shape) = 3
    /\ lineNo >= 3
    /\ shape[1].t = 1 /\ shape[1].style = "spaced"
    /\ shape[2].t = 1
    /\ shape[3].t = 2
    /\ Len(records) = 2
    /\ records[2] = <<Token(1, 1), Token(2, 1), Token(3, 1), Token(3, 2)>>
    /\ accumulated = << >>

\* the record normalizeCSV builds from the tokens of line l alone
RecordOfLine(l, t) ==
    <<Token(l, 1), Token(l, 2), Join(SubSeq(TokensOf(l, t), 3, t - 1), <<" ">>), Token(l, t)>>

\* C11: for every processed line that alone contributes 4 or more tokens,
\* exactly one record is emitted for that line and it is built from that
\* line's tokens only, whatever the accumulator held before the line.
C11_FullLineDiscardsAccumulator ==
    \A k \in 1..Len(shape) :
        (k <= lineNo /\ shape[k].t >= 4)
        => /\ hist[k].nrec = RecsBefore(k) + 1
           /\ records[hist[k].nrec] = RecordOfLine(k, shape[k].t)

\* two leftover tokens of line 1 were in the accumulator when line 2 came
\* with five tokens
C11_Witness ==
    /\ Len(shape) >= 2
    /\ lineNo >= 2
    /\ shape[1].t = 2
    /\ hist[1].acc = <<Token(1, 1), Token(1, 2)>>
    /\ shape[2].t = 5
    /\ Len(records) = 2
    /\ records[2] = <<Token(2, 1), Token(2, 2), Token(2, 3) \o <<" ">> \o Token(2, 4), Token(2, 5)>>

\* the accumulator after the tokens of line k are appended
AccAfterAppend(k) ==
    (IF AccBefore(k) # << >> /\ shape[k].t >= 4 THEN << >> ELSE AccBefore(k))
        \o TokensOf(k, shape[k].t)

\* C20: whenever the accumulator holds n >= 4 tokens after the tokens of a
\* line are appended, exactly one record is emitted for that line, with
\* field 1 = token 1, field 2 = token 2, field 3 = tokens 3..n-1 joined by
\* single spaces and field 4 = token n, and the accumulator is empty after the
\* line; with fewer than 4 tokens nothing is emitted; records are appended in
\* line order and the output holds them in that order.
C20_EmissionRule ==
    /\ \A k \in 1..Len(shape) :
          k <= lineNo =>
              LET acc == AccAfterAppend(k)
                  n   == Len(acc)
              IN IF n >= 4
                 THEN /\ hist[k].nrec = RecsBefore(k) + 1
                      /\ records[hist[k].nrec] =
                            <<acc[1], acc[2], Join(SubSeq(acc, 3, n - 1), <<" ">>), acc[n]>>
                      /\ hist[k].acc = << >>
                 ELSE /\ hist[k].nrec = RecsBefore(k)
                      /\ hist[k].acc = acc
    /\ Len(records) = IF lineNo = 0 THEN 1 ELSE hist[lineNo].nrec
    /\ out # << >> => ReadRows(Split(out, "\n")) = records

\* lines of three and three tokens gave one record whose third field joins
\* three tokens, after a first record of one line
C20_Witness ==
    /\ Len(shape) = 3
    /\ shape[1].t = 4
    /\ shape[2].t = 3
    /\ shape[3].t = 3
    /\ out # << >>
    /\ Len(records) = 3
    /\ records[2] = <<Token(1, 1), Token(1, 2), Token(1, 3), Token(1, 4)>>
    /\ records[3] = <<Token(2, 1), Token(2, 2),
                      Token(2, 3) \o <<" ">> \o Token(3, 1) \o <<" ">> \o Token(3, 2), Token(3, 3)>>

\* the tokens a record was built from
RecordTokens(rec) == <<rec[1], rec[2]>> \o Split(rec[3], " ") \o <<rec[4]>>

\* the rows of the returned bytes
OutRows == ReadRows(Split(out, "\n"))

\* a run that has returned has returned no error, its output holds the header
\* and exactly the records emitted while the lines were processed, no token
\* left in the accumulator occurs in any output record, and the empty input
\* and inputs whose lines hold no token give no record at all
ReturnedClean ==
    normErr # "none" =>
          /\ normErr = "nil"
          /\ lineNo = Len(lines)
          /\ OutRows[1] = Header
          /\ Len(OutRows) = (IF lineNo = 0 THEN 1 ELSE hist[lineNo].nrec)
          /\ \A i \in 2..Len(OutRows) :
                /\ Len(OutRows[i]) = 4
                /\ \A k \in 1..Len(accumulated) :
                      \A m \in 1..Len(RecordTokens(OutRows[i])) :
                          RecordTokens(OutRows[i])[m] # accumulated[k]
          /\ (data = << >> \/ \A l \in 1..Len(shape) : shape[l].t = 0) => Len(OutRows) = 1

\* every step of the run either consumes the next physical line or, after the
\* last line, returns without an error; no step ends the run early
RunAdvances ==
    \/ lineNo < Len(lines) /\ lineNo' = lineNo + 1 /\ normErr' = "none"
    \/ lineNo = Len(lines) /\ lineNo' = lineNo /\ normErr = "none" /\ normErr' = "nil"

\* C21: for every input the run of the normalizer goes through all lines
\* and ends without an error; tokens still in the accumulator at the end of
\* the input give no output record, and the empty input, empty lines and
\* lines of only commas give zero records.
C21_NormalizerNeverFails == []ReturnedClean /\ [][RunAdvances]_vars

\* a full first line and two tokens on the second: the run returned one
\* record and the two tokens were still in the accumulator
C21_Witness ==
    /\ Len(shape) = 2
    /\ shape[1].t = 4
    /\ shape[2].t = 2
    /\ normErr = "nil"
    /\ accumulated = <<Token(2, 1), Token(2, 2)>>
    /\ Len(OutRows) = 2
    /\ OutRows[2] = <<Token(1, 1), Token(1, 2), Token(1, 3), Token(1, 4)>>

RECURSIVE WithLF(_)
\* the text with every CRLF terminator replaced by LF
WithLF(s) ==
    IF Len(s) = 0 THEN << >>
    ELSE IF Len(s) >= 2 /\ s[1] = "\r" /\ s[2] = "\n" THEN <<"\n">> \o WithLF(SubSeq(s, 3, Len(s)))
    ELSE <<s[1]>> \o WithLF(Tail(s))

RECURSIVE WithCRLF(_)
\* the text with every LF terminator replaced by CRLF
WithCRLF(s) ==
    IF Len(s) = 0 THEN << >>
    ELSE IF Len(s) >= 2 /\ s[1] = "\r" /\ s[2] = "\n"
         THEN <<"\r", "\n">> \o WithCRLF(SubSeq(s, 3, Len(s)))
    ELSE IF s[1] = "\n" THEN <<"\r", "\n">> \o WithCRLF(Tail(s))
    ELSE <<s[1]>> \o WithCRLF(Tail(s))

\* C26: the records returned for an input are the records normalizeCSV
\* returns for the same input with every LF terminator replaced by CRLF, and
\* for the same input with every CRLF terminator replaced by LF.
C26_TerminatorIndependence ==
    normErr = "nil" =>
        /\ OutRows = normalizeCSV(WithCRLF(data))
        /\ OutRows = normalizeCSV(WithLF(data))

\* an input of two full lines ended by CRLF gave two records, as does the
\* same input with LF
C26_Witness ==
    /\ normErr = "nil"
    /\ Len(shape) = 2
    /\ shape[1].t = 4
    /\ shape[2].t = 4
    /\ data = FileText(shape, 1, <<"\r", "\n">>)
    /\ WithLF(data) = FileText(shape, 1, <<"\n">>)
    /\ Len(OutRows) = 3
    /\ Len(normalizeCSV(WithLF(data))) = 3

\* the lines the tokens of a record come from
LinesOf(rec) == {RecordTokens(rec)[m][1] : m \in 1..Len(RecordTokens(rec))}

\* C27: after every processed line the accumulator holds 0 to 3 tokens;
\* whenever the guard discards the accumulator it discards 1 to 3 tokens;
\* and every record whose tokens come from more than one line is built from
\* at most 6 tokens.
C27_AccumulatorBound ==
    /\ Len(accumulated) \in 0..3
    /\ \A k \in 1..lineNo :
          /\ Len(hist[k].acc) \in 0..3
          /\ Len(hist[k].dropped) \in 0..3
          /\ (k <= Len(shape) /\ AccBefore(k) # << >> /\ shape[k].t >= 4)
                => Len(hist[k].dropped) \in 1..3
    /\ \A i \in 2..Len(records) :
          Cardinality(LinesOf(records[i])) > 1 => Len(RecordTokens(records[i])) <= 6

\* three tokens were in the accumulator after line 1; line 2 brought three
\* more and the record was built from all six; a full third line followed
C27_Witness ==
    /\ Len(shape) = 3
    /\ lineNo = 3
    /\ shape[1].t = 3
    /\ shape[2].t = 3
    /\ Len(hist[1].acc) = 3
    /\ Len(RecordTokens(records[2])) = 6
    /\ Cardinality(LinesOf(records[2])) = 2
    /\ shape[3].t = 4

\* C28: every physical line adds at most one record, so that there are never
\* more records than processed lines; a line of 8 or more tokens adds exactly
\* one record, whose third field joins all tokens between the second and the
\* last one with single spaces, and leaves the accumulator empty.
C28_OneRecordPerLine ==
    /\ lineNo <= Len(lines)
    /\ Len(records) - 1 <= lineNo
    /\ normErr = "nil" => Len(OutRows) - 1 <= Len(lines)
    /\ \A k \in 1..lineNo :
          /\ hist[k].nrec - RecsBefore(k) \in {0, 1}
          /\ (k <= Len(shape) /\ shape[k].t >= 8) =>
                /\ hist[k].nrec = RecsBefore(k) + 1
                /\ hist[k].acc = << >>
                /\ Len(records[hist[k].nrec]) = 4
                /\ records[hist[k].nrec][1] = Token(k, 1)
                /\ records[hist[k].nrec][2] = Token(k, 2)
                /\ Split(records[hist[k].nrec][3], " ")
                      = SubSeq(TokensOf(k, shape[k].t), 3, shape[k].t - 1)
                /\ records[hist[k].nrec][4] = Token(k, shape[k].t)

\* one line of eight tokens gave one record whose third field joins
\* tokens 3 to 7
C28_Witness ==
    /\ Len(shape) = 1
    /\ shape[1].t = 8
    /\ lineNo >= 1
    /\ Len(records) = 2
    /\ Split(records[2][3], " ") = <<Token(1, 3), Token(1, 4), Token(1, 5), Token(1, 6), Token(1, 7)>>

\* ------------------------------------------------------------------------
\* Decoder run: toPerson on generated records
\* ------------------------------------------------------------------------

\* color-code fields and the integer each one stands for (int is FALSE when it is no integer)
DecCodes ==
    { [text |-> <<"1">>, int |-> TRUE, val |-> 1],
      [text |-> <<"2">>, int |-> TRUE, val |-> 2],
      [text |-> <<"3">>, int |-> TRUE, val |-> 3],
      [text |-> <<"4">>, int |-> TRUE, val |-> 4],
      [text |-> <<"5">>, int |-> TRUE, val |-> 5],
      [text |-> <<"6">>, int |-> TRUE, val |-> 6],
      [text |-> <<"7">>, int |-> TRUE, val |-> 7],
      [text |-> <<"0">>, int |-> TRUE, val |-> 0],
      [text |-> <<"8">>, int |-> TRUE, val |-> 8],
      [text |-> <<"9", "9">>, int |-> TRUE, val |-> 99],
      [text |-> <<"-", "1">>, int |-> TRUE, val |-> 0 - 1],
      [text |-> <<"0", "7">>, int |-> TRUE, val |-> 7],
      [text |-> <<"+", "4">>, int |-> TRUE, val |-> 4],
      [text |-> <<" ", "3", " ">>, int |-> TRUE, val |-> 3],
      [text |-> <<"a", "b", "c">>, int |-> FALSE, val |-> 0],
      [text |-> << >>, int |-> FALSE, val |-> 0],
      [text |-> <<"1", ".", "5">>, int |-> FALSE, val |-> 0],
      [text |-> <<"2", "x">>, int |-> FALSE, val |-> 0],
      [text |-> <<"-">>, int |-> FALSE, val |-> 0] }

\* combined fields with the zipcode and city that cutting at the first space
\* character gives (zip, city) and that cutting at the first run of any
\* whitespace gives (wsZip, wsCity)
DecZipCities ==
    { [text |-> <<"1", "1", " ", "Z">>,
       zip |-> <<"1", "1">>, city |-> <<"Z">>, wsZip |-> <<"1", "1">>, wsCity |-> <<"Z">>],
      [text |-> <<"1", "1">>,
       zip |-> <<"1", "1">>, city |-> << >>, wsZip |-> <<"1", "1">>, wsCity |-> << >>],
      [text |-> << >>,
       zip |-> << >>, city |-> << >>, wsZip |-> << >>, wsCity |-> << >>],
      [text |-> <<"1", "1", " ", "Z", " ", "-", " ", "Y">>,
       zip |-> <<"1", "1">>, city |-> <<"Z", " ", "-", " ", "Y">>,
       wsZip |-> <<"1", "1">>, wsCity |-> <<"Z", " ", "-", " ", "Y">>],
      [text |-> <<"1", "1", " ", " ", "Z">>,
       zip |-> <<"1", "1">>, city |-> <<"Z">>, wsZip |-> <<"1", "1">>, wsCity |-> <<"Z">>],
      [text |-> <<"1", "1", " ", "\t", "Z", "\t", "Y">>,
       zip |-> <<"1", "1">>, city |-> <<"Z", "\t", "Y">>,
       wsZip |-> <<"1", "1">>, wsCity |-> <<"Z", "\t", "Y">>],
      [text |-> <<"1", "1", "\t", "Z">>,
       zip |-> <<"1", "1", "\t", "Z">>, city |-> << >>,
       wsZip |-> <<"1", "1">>, wsCity |-> <<"Z">>],
      [text |-> <<"1", "\t", "1", " ", "Z">>,
       zip |-> <<"1", "\t", "1">>, city |-> <<"Z">>,
       wsZip |-> <<"1">>, wsCity |-> <<"1", " ", "Z">>] }

\* what the table holds for the combined field of a record
ZipCityOf(text) == CHOOSE zc \in DecZipCities : zc.text = text

MaxDecID == 3

DecIDs == 1..MaxDecID

\* the integer the color-code field stands for
CodeValue(text) == CHOOSE c \in DecCodes : c.text = text

InitDec ==
    /\ \E c \in DecCodes, zc \in DecZipCities :
          dto = [Lastname |-> <<"X">>, Name |-> <<"Y">>, ZipCity |-> zc.text, ColorID |-> c.text]
    /\ decID \in DecIDs
    /\ decRet = NoDecRet
    /\ maxPersons = 0
    /\ MemEmpty
    /\ ProcIdle
    /\ RefIdle
    /\ calls = 0
    /\ SqlEmpty
    /\ TxIdle
    /\ SeqIdle
    /\ NormIdle
    /\ NewDone
    /\ SvcIdle

\* one call toPerson(decID, dto)
Decode ==
    /\ ~decRet.done
    /\ LET r == toPerson(decID, dto)
       IN decRet' = [done |-> TRUE, ok |-> r.ok, person |-> r.person]
    /\ UNCHANGED <<refVars, dto, decID, newVars, svcVars, cfgVars, memVars, procVars, calls, sqlVars, txVars,
                   seqVars, normVars>>

NextDec == Decode

SpecDec == InitDec /\ [][NextDec]_vars

\* the color name fixed for each code
NameOfCode(n) ==
    CASE n = 1 -> "blau" [] n = 2 -> "gruen" [] n = 3 -> "violett" [] n = 4 -> "rot"
      [] n = 5 -> "gelb" [] n = 6 -> "tuerkis" [] n = 7 -> "weiss"

\* C12: toPerson(id, record) succeeds exactly when the color-code field
\* stands for an integer in 1..7 and then returns a person with the given id
\* and the color name fixed for that code; otherwise it returns an error and
\* no person.
C12_ToPersonColorCode ==
    decRet.done =>
        LET v == CodeValue(dto.ColorID)
        IN IF v.int /\ v.val \in 1..7
           THEN /\ decRet.ok
                /\ decRet.person.ID = decID
                /\ decRet.person.Color = NameOfCode(v.val)
           ELSE /\ ~decRet.ok
                /\ decRet.person = NoPerson

\* code 7 decoded to weiss with the given id; code 0 was rejected
C12_Witness ==
    /\ decRet.done
    /\ \/ dto.ColorID = <<"7">> /\ decRet.ok /\ decRet.person.Color = "weiss" /\ decRet.person.ID = 2
       \/ dto.ColorID = <<"0">> /\ ~decRet.ok

\* the text holds no character of the given set
HasNone(text, chars) == \A i \in 1..Len(text) : text[i] \notin chars

\* C22 as stated: the zipcode of a decoded person is the part of the combined
\* field before its first run of whitespace and the city is everything after
\* that run; without whitespace the zipcode is the whole field and the city
\* is empty; the zipcode holds no whitespace.
C22_SplitAtWhitespace ==
    (decRet.done /\ decRet.ok) =>
        /\ decRet.person.Zipcode = ZipCityOf(dto.ZipCity).wsZip
        /\ decRet.person.City = ZipCityOf(dto.ZipCity).wsCity
        /\ HasNone(decRet.person.Zipcode, {" ", "\t", "\r", "\n"})

\* C22 amended: the zipcode of a decoded person is the part of the combined
\* field before its first space character and the city is everything after
\* that space, both without surrounding whitespace and the city otherwise
\* whole; without a space character the zipcode is the whole field and the
\* city is empty; the zipcode holds no space character.
C22_SplitAtFirstSpace ==
    (decRet.done /\ decRet.ok) =>
        /\ decRet.person.Zipcode = ZipCityOf(dto.ZipCity).zip
        /\ decRet.person.City = ZipCityOf(dto.ZipCity).city
        /\ HasNone(decRet.person.Zipcode, {" "})
        /\ HasNone(dto.ZipCity, {" "}) =>
              (decRet.person.Zipcode = dto.ZipCity /\ decRet.person.City = << >>)

\* "11<tab>Z" has no space character: it came back whole as the zipcode
C22_Witness ==
    /\ decRet.done
    /\ decRet.ok
    /\ dto.ZipCity = <<"1", "1", "\t", "Z">>
    /\ decRet.person.Zipcode = <<"1", "1", "\t", "Z">>
    /\ decRet.person.City = << >>

\* ------------------------------------------------------------------------
\* Construction: NewPersonRepository on generated files, then one read
\* ------------------------------------------------------------------------

MaxNewRecs == 3

NewSources ==
    {SourceOf(cs, 1) : cs \in UNION {[1..n -> Codes] : n \in 0..MaxNewRecs}} \cup {MultiLineSource}

\* persons a source line is written from
TripPersons ==
    [ID : {0},
     Lastname : {<<"A">>, <<"v", " ", "D">>},
     Name : {<<"B">>, <<"7">>},
     Zipcode : {<<"1", "2">>, <<"S">>},
     City : {<<"X">>, <<"N", " ", "Y">>, <<"N", " ", " ", "Y">>, << >>},
     Color : DOMAIN ColorNameID]

\* strconv.Itoa for one decimal digit
Itoa(n) == <<CHOOSE c \in Digits : DigitVal(c) = n>>

LineEnds == {<< >>, <<"\n">>, <<"\r", "\n">>}

\* the line "lastname, name, zipcode city, code"
EncodeLine(p, end) ==
    p.Lastname \o <<",", " ">> \o p.Name \o <<",", " ">> \o p.Zipcode \o <<" ">> \o p.City
        \o <<",", " ">> \o Itoa(ColorNameID[p.Color]) \o end

\* before NewPersonRepository is called: no repository yet
InitNew ==
    /\ \E o \in TripPersons \cup {NoPerson} :
          /\ orig = o
          /\ source \in IF o = NoPerson THEN NewSources ELSE {EncodeLine(o, e) : e \in LineEnds}
    /\ readable \in BOOLEAN
    /\ newErr = "none"
    /\ maxPersons \in 0..MaxCap
    /\ dtos = << >>
    /\ loadedCount = 0
    /\ persons = << >>
    /\ nextID = 0
    /\ ProcIdle
    /\ RefIdle
    /\ calls = 0
    /\ SqlEmpty
    /\ TxIdle
    /\ SeqIdle
    /\ NormIdle
    /\ DecIdle
    /\ SvcIdle

\* NewPersonRepository(filePath, maxPersons, logger): load fails only at os.ReadFile
New ==
    /\ newErr = "none"
    /\ IF ~readable
       THEN /\ newErr' = "ReadFile"
            /\ UNCHANGED <<dtos, loadedCount, persons, nextID>>
       ELSE /\ newErr' = "nil"
            /\ dtos' = load(source).dtos
            /\ persons' = load(source).persons
            /\ nextID' = load(source).nextID
            /\ loadedCount' = Len(load(source).persons)
    /\ UNCHANGED <<refVars, decVars, readable, orig, svcVars, source, maxPersons, procVars, calls, sqlVars,
                   txVars, seqVars, normVars>>

NextNew ==
    \/ New
    \/ SeqGetAll
    \/ SeqGetByColor
    \/ SeqGetByID

SpecNew == InitNew /\ [][NextNew]_vars

\* the color-code fields that stand for one of the 7 codes
ValidCodeTexts == {Itoa(n) : n \in 1..7}

\* the normalized record decodes
Decodable(d) == d.ColorID \in ValidCodeTexts

\* p is the person of a normalized record that decodes
FromDecodable(p) ==
    /\ p.ID \in 1..Len(dtos)
    /\ Decodable(dtos[p.ID])
    /\ p.Lastname = dtos[p.ID].Lastname
    /\ p.Name = dtos[p.ID].Name

\* C13: construction fails exactly when the file cannot be read; after it
\* succeeded, every normalized record that decodes is stored, whether or not
\* a record before it failed to decode, no other person is stored, and
\* GetAll, GetByColor and GetByID return no person of a record that failed.
C13_LoadSkipsBadRecords ==
    /\ newErr # "none" => (newErr = "nil" <=> readable)
    /\ newErr = "nil" =>
          /\ \A i \in 1..Len(dtos) :
                Decodable(dtos[i]) =>
                    \E k \in 1..Len(persons) : persons[k].ID = i /\ FromDecodable(persons[k])
          /\ \A k \in 1..Len(persons) : FromDecodable(persons[k])
          /\ qry.kind \in {"GetAll", "GetByColor"} =>
                \A n \in 1..Len(memRet.list.items) : FromDecodable(memRet.list.items[n])
          /\ qry.kind = "GetByID" =>
                /\ memRet.err = "nil" => FromDecodable(memRet.person)
                /\ (qry.id \in 1..Len(dtos) /\ ~Decodable(dtos[qry.id])) => memRet.err = "NotFound"

\* record 2 of 3 failed to decode: records 1 and 3 are stored and GetByID(2)
\* is NotFound
C13_Witness ==
    /\ newErr = "nil"
    /\ Len(dtos) = 3
    /\ ~Decodable(dtos[2])
    /\ Len(persons) = 2
    /\ persons[1].ID = 1
    /\ persons[2].ID = 3
    /\ qry.kind = "GetByID"
    /\ qry.id = 2
    /\ memRet.err = "NotFound"

nameMinLen    == 2
nameMaxLen    == 255
zipcodeMaxLen == 5
cityMinLen    == 2
cityMaxLen    == 255

UpperCase == <<"A", "B", "E", "I", "L", "O", "R", "S", "T", "U", "W">>
LowerCase == <<"a", "b", "e", "i", "l", "o", "r", "s", "t", "u", "w">>

\* strings.ToLower on the letters that occur in the inputs
ToLower(s) ==
    [i \in 1..Len(s) |->
        IF \E k \in 1..Len(UpperCase) : UpperCase[k] = s[i]
        THEN LowerCase[CHOOSE k \in 1..Len(UpperCase) : UpperCase[k] = s[i]]
        ELSE s[i]]

\* the spelling of each color name
ColorText ==
    ("blau" :> <<"b", "l", "a", "u">>) @@ ("gruen" :> <<"g", "r", "u", "e", "n">>)
    @@ ("violett" :> <<"v", "i", "o", "l", "e", "t", "t">>) @@ ("rot" :> <<"r", "o", "t">>)
    @@ ("gelb" :> <<"g", "e", "l", "b">>) @@ ("tuerkis" :> <<"t", "u", "e", "r", "k", "i", "s">>)
    @@ ("weiss" :> <<"w", "e", "i", "s", "s">>)

\* the color a spelling names; "other" for a spelling that names none of the 7
ColorOfText(text) ==
    IF \E c \in DOMAIN ColorText : ColorText[c] = text
    THEN CHOOSE c \in DOMAIN ColorText : ColorText[c] = text
    ELSE "other"

\* utf8.RuneCountInString: every character of the inputs is one rune
RuneCount(s) == Len(s)

checkLength(s, min, max) ==
    IF RuneCount(s) < min THEN "InvalidInput"
    ELSE IF RuneCount(s) > max THEN "InvalidInput"
    ELSE "nil"

\* validatePerson on the trimmed fields
validatePerson(p) ==
    IF checkLength(p.Name, nameMinLen, nameMaxLen) # "nil" THEN "InvalidInput"
    ELSE IF checkLength(p.Lastname, nameMinLen, nameMaxLen) # "nil" THEN "InvalidInput"
    ELSE IF p.Zipcode = << >> THEN "InvalidInput"
    ELSE IF RuneCount(p.Zipcode) > zipcodeMaxLen THEN "InvalidInput"
    ELSE IF checkLength(p.City, cityMinLen, cityMaxLen) # "nil" THEN "InvalidInput"
    ELSE "nil"

\* the first five statements of PersonService.Add: the fields trimmed, the color in lower case
Trimmed(arg) ==
    [ID |-> arg.ID, Name |-> TrimSpace(arg.Name), Lastname |-> TrimSpace(arg.Lastname),
     Zipcode |-> TrimSpace(arg.Zipcode), City |-> TrimSpace(arg.City),
     Color |-> ColorOfText(ToLower(TrimSpace(arg.Color)))]

Rejected(items, next) ==
    [persons |-> items, nextID |-> next,
     ret |-> [err |-> "InvalidInput", person |-> NoPerson, list |-> NilSlice]]

\* PersonService.Add that hands every validated person to the repository
ServiceAdd_NoColorCheck(items, next, max, arg) ==
    LET person == Trimmed(arg)
    IN IF validatePerson(person) # "nil" THEN Rejected(items, next)
       ELSE MemAdd(items, next, max, person)

\* PersonService.Add on the memory repository (items, next, max)
ServiceAdd(items, next, max, arg) ==
    LET person == Trimmed(arg)
    IN IF validatePerson(person) # "nil" THEN Rejected(items, next)
       ELSE IF person.Color \notin DOMAIN ColorNameID THEN Rejected(items, next)
       ELSE MemAdd(items, next, max, person)

MaxSvcCalls == 2

\* a zipcode of n digits
Rep(n) == [i \in 1..n |-> "1"]

\* a person that passes every check of PersonService.Add
SvcBase ==
    [ID |-> 0, Name |-> <<"H", "a">>, Lastname |-> <<"M", "u">>, Zipcode |-> <<"6", "7">>,
     City |-> <<"X", "y">>, Color |-> <<"r", "o", "t">>]

SvcNames     == { <<"H">>, <<" ", "H", "a", " ">>, <<" ", "H", " ">> }
SvcLastnames == { << >>, <<"M">> }
SvcZips ==
    { Rep(0), Rep(1), Rep(5), Rep(6), Rep(20), Rep(21), <<" ">>,
      <<"S", "W", "1", "A", " ", "1", "A", "A">>,
      <<" ">> \o Rep(5) \o <<" ">>, <<" ">> \o Rep(20), <<" ">> \o Rep(21) }
SvcCities    == { <<"X">>, << >> }
SvcColors ==
    { <<" ", "R", "O", "T", " ">>, <<"B", "l", "a", "u">>, <<"W", "E", "I", "S", "S">>,
      <<"p", "i", "n", "k">>, << >> }

\* the person with one field changed at a time, a caller-set ID, and two wrong fields
SvcArgs ==
    {SvcBase, [SvcBase EXCEPT !.ID = 7]}
    \cup {[SvcBase EXCEPT !.Name = x] : x \in SvcNames}
    \cup {[SvcBase EXCEPT !.Lastname = x] : x \in SvcLastnames}
    \cup {[SvcBase EXCEPT !.Zipcode = x] : x \in SvcZips}
    \cup {[SvcBase EXCEPT !.City = x] : x \in SvcCities}
    \cup {[SvcBase EXCEPT !.Color = x] : x \in SvcColors}
    \cup {[SvcBase EXCEPT !.Zipcode = Rep(6), !.Color = <<"p", "i", "n", "k">>]}

InitSvc ==
    /\ InitMem
    /\ ProcIdle
    /\ RefIdle
    /\ calls = 0
    /\ SqlEmpty
    /\ TxIdle
    /\ SeqIdle
    /\ NormIdle
    /\ DecIdle
    /\ NewDone
    /\ SvcIdle

\* one call PersonService.Add(ctx, person)
SvcAdd ==
    /\ calls < MaxSvcCalls
    /\ \E arg \in SvcArgs :
          LET r == ServiceAdd(persons, nextID, maxPersons, arg)
          IN /\ svcArg' = arg
             /\ svcRet' = r.ret
             /\ persons' = r.persons
             /\ nextID' = r.nextID
    /\ calls' = calls + 1
    /\ UNCHANGED <<refVars, decVars, newVars, cfgVars, procVars, sqlVars, txVars, seqVars, normVars>>

NextSvc == SvcAdd

SpecSvc == InitSvc /\ [][NextSvc]_vars

\* the 7 fixed color names
ColorNames == {"blau", "gruen", "violett", "rot", "gelb", "tuerkis", "weiss"}

OnlyZipcodeVaries == svcArg # NoPerson /\ [svcArg EXCEPT !.Zipcode = SvcBase.Zipcode] = SvcBase

\* C19: PersonService.Add accepts a person whose trimmed zipcode has 1 to 20
\* characters, also one with an inner space, and rejects an empty zipcode or
\* one of 21 or more characters with InvalidInput (all other fields valid).
C19_ZipcodeLength ==
    OnlyZipcodeVaries =>
        LET n == Len(TrimSpace(svcArg.Zipcode))
        IN IF n \in 1..20 THEN svcRet.err # "InvalidInput" ELSE svcRet.err = "InvalidInput"

\* ------------------------------------------------------------------------
\* Slice run: the lists of the memory repository as Go slices, and a caller
\* that writes to the list a read has returned
\* ------------------------------------------------------------------------

MaxRefCalls == 3
MaxRefPage  == 1

\* limits, offsets and IDs the caller asks with
RefPages == (0 - 1)..MaxRefPage

\* an array of n zero values
Zeroes(n) == [i \in 1..n |-> NoPerson]

\* the elements the slice header sl shows of the arrays h
Elems(h, sl) == IF sl.arr = "nil" THEN << >> ELSE SubSeq(h[sl.arr], sl.off + 1, sl.off + sl.len)

\* header of r.persons: the first cells of the array store, with n elements
StoreHeader(h, n) == [arr |-> "store", off |-> 0, len |-> n, cap |-> Len(h.store)]

\* append(sl, x): in place while the capacity lasts, else into a new array
\* (put into the slot fresh) of twice the capacity
AppendSlice(h, sl, x, fresh) ==
    IF sl.len < sl.cap
    THEN [heap |-> [h EXCEPT ![sl.arr][sl.off + sl.len + 1] = x],
          sl   |-> [sl EXCEPT !.len = @ + 1]]
    ELSE LET newcap == IF sl.cap = 0 THEN 1 ELSE 2 * sl.cap
         IN [heap |-> [h EXCEPT ![fresh] = Elems(h, sl) \o <<x>> \o Zeroes(newcap - sl.len - 1)],
             sl   |-> [arr |-> fresh, off |-> 0, len |-> sl.len + 1, cap |-> newcap]]

\* items[offset:] and items[:limit] as applyPagination takes them
Reslice(items, limit, off) ==
    LET s1 == [items EXCEPT !.off = @ + off, !.len = @ - off, !.cap = @ - off]
    IN IF limit > 0 /\ limit < s1.len THEN [s1 EXCEPT !.len = limit] ELSE s1

\* PaginateSlice that returns the cut of items itself
PaginateSlice_NoCopy(h, items, limit, offset) ==
    LET off == IF offset < 0 THEN 0 ELSE offset
    IN IF off >= items.len
       THEN [heap |-> [h EXCEPT !.own = << >>],
             sl   |-> [arr |-> "own", off |-> 0, len |-> 0, cap |-> 0]]
       ELSE [heap |-> h, sl |-> Reslice(items, limit, off)]

\* applyPagination on slice headers: the result is made with make and filled
\* by copy, in a new array (slot own)
PaginateSlice(h, items, limit, offset) ==
    LET off == IF offset < 0 THEN 0 ELSE offset
    IN IF off >= items.len
       THEN [heap |-> [h EXCEPT !.own = << >>],
             sl   |-> [arr |-> "own", off |-> 0, len |-> 0, cap |-> 0]]
       ELSE LET cut == Reslice(items, limit, off)
            IN [heap |-> [h EXCEPT !.own = Elems(h, cut)],
                sl   |-> [arr |-> "own", off |-> 0, len |-> cut.len, cap |-> cut.len]]

RECURSIVE MatchLoop(_, _, _, _, _)
\* the loop of GetByColor: matched starts nil and grows by append (slot tmp)
MatchLoop(h, matched, n, i, color) ==
    IF i > n THEN [heap |-> h, sl |-> matched]
    ELSE IF h.store[i].Color = color
         THEN LET a == AppendSlice(h, matched, h.store[i], "tmp")
              IN MatchLoop(a.heap, a.sl, n, i + 1, color)
         ELSE MatchLoop(h, matched, n, i + 1, color)

\* the arrays a call works on: those of the state and a slot for matched
Work == [store |-> heap.store, own |-> heap.own, tmp |-> << >>]

\* the arrays and the header that stay when a read has returned r: the
\* caller's earlier list is dropped, and so is matched unless r points into it
Returned(r) ==
    IF r.sl.arr = "tmp"
    THEN [heap |-> [store |-> r.heap.store, own |-> r.heap.tmp], sl |-> [r.sl EXCEPT !.arr = "own"]]
    ELSE [heap |-> [store |-> r.heap.store, own |-> IF r.sl.arr = "own" THEN r.heap.own ELSE << >>],
          sl |-> r.sl]

\* what the caller sees in the list it holds
ListOf(h, sl) == [present |-> sl.arr # "nil", items |-> Elems(h, sl)]

\* the person the caller writes with
Scribble == [ID |-> 9, Name |-> <<"!">>, Lastname |-> <<"!">>, Zipcode |-> << >>, City |-> << >>,
             Color |-> "gelb"]

\* NewPersonRepository: r.persons = make([]domain.Person, 0, len(dtos)), filled by append
InitRef ==
    /\ InitMem
    /\ maxPersons \in {0, MaxCap}
    /\ heap = [store |-> persons \o Zeroes(Len(dtos) - Len(persons)), own |-> << >>]
    /\ got = NilHeader
    /\ ProcIdle
    /\ calls = 0
    /\ SqlEmpty
    /\ TxIdle
    /\ SeqIdle
    /\ NormIdle
    /\ DecIdle
    /\ NewDone
    /\ SvcIdle

\* Add: the capacity check, then r.persons = append(r.persons, person); a list
\* the caller holds keeps the array it points into
RefAdd ==
    /\ calls < MaxRefCalls
    /\ \E person \in AddArgs :
          /\ qry' = [NoQry EXCEPT !.kind = "Add", !.person = person]
          /\ IF CapacityReached(persons, maxPersons)
             THEN /\ memRet' = [err |-> "CapacityReached", person |-> NoPerson, list |-> NilSlice]
                  /\ UNCHANGED <<memVars, refVars>>
             ELSE LET stored == [person EXCEPT !.ID = nextID]
                      a      == AppendSlice(heap, StoreHeader(heap, Len(persons)), stored, "store")
                      moved  == got.arr = "store" /\ Len(persons) >= Len(heap.store)
                  IN /\ heap' = IF moved THEN [store |-> a.heap.store, own |-> heap.store]
                                ELSE a.heap
                     /\ got' = IF moved THEN [got EXCEPT !.arr = "own"] ELSE got
                     /\ persons' = Elems(a.heap, a.sl)
                     /\ nextID' = nextID + 1
                     /\ memRet' = [err |-> "nil", person |-> stored, list |-> NilSlice]
    /\ calls' = calls + 1
    /\ UNCHANGED <<decVars, newVars, svcVars, cfgVars, procVars, sqlVars, sqlRet, txVars, normVars>>

\* GetAll(limit, offset): applyPagination(r.persons, limit, offset)
RefGetAll ==
    /\ calls < MaxRefCalls
    /\ \E limit \in RefPages, offset \in RefPages :
          LET r == Returned(PaginateSlice(Work, StoreHeader(heap, Len(persons)), limit, offset))
          IN /\ qry' = [NoQry EXCEPT !.kind = "GetAll", !.limit = limit, !.offset = offset]
             /\ heap' = r.heap
             /\ got' = r.sl
             /\ memRet' = [err |-> "nil", person |-> NoPerson, list |-> ListOf(r.heap, r.sl)]
    /\ calls' = calls + 1
    /\ UNCHANGED <<decVars, newVars, svcVars, cfgVars, memVars, procVars, sqlVars, sqlRet, txVars, normVars>>

\* GetByColor(color, limit, offset): applyPagination(matched, limit, offset)
RefGetByColor ==
    /\ calls < MaxRefCalls
    /\ \E color \in QueryColors, limit \in RefPages, offset \in RefPages :
          LET m == MatchLoop(Work, NilHeader, Len(persons), 1, color)
              r == Returned(PaginateSlice(m.heap, m.sl, limit, offset))
          IN /\ qry' = [NoQry EXCEPT !.kind = "GetByColor", !.color = color, !.limit = limit,
                                     !.offset = offset]
             /\ heap' = r.heap
             /\ got' = r.sl
             /\ memRet' = [err |-> "nil", person |-> NoPerson, list |-> ListOf(r.heap, r.sl)]
    /\ calls' = calls + 1
    /\ UNCHANGED <<decVars, newVars, svcVars, cfgVars, memVars, procVars, sqlVars, sqlRet, txVars, normVars>>

\* GetByID(id) returns a Person by value; the caller keeps the list it holds
RefGetByID ==
    /\ calls < MaxRefCalls
    /\ \E id \in RefPages :
          /\ qry' = [NoQry EXCEPT !.kind = "GetByID", !.id = id]
          /\ memRet' = GetByID(persons, id)
    /\ calls' = calls + 1
    /\ UNCHANGED <<refVars, decVars, newVars, svcVars, cfgVars, memVars, procVars, sqlVars, sqlRet, txVars,
                   normVars>>

\* the caller assigns to element i of the list it holds; r.persons is the
\* content of its array after the write
CallerSet ==
    /\ calls < MaxRefCalls
    /\ got.arr # "nil"
    /\ \E i \in 1..got.len :
          /\ qry' = [NoQry EXCEPT !.kind = "Set", !.id = i]
          /\ heap' = [heap EXCEPT ![got.arr][got.off + i] = Scribble]
    /\ persons' = SubSeq(heap'.store, 1, Len(persons))
    /\ memRet' = [err |-> "nil", person |-> NoPerson, list |-> ListOf(heap', got)]
    /\ calls' = calls + 1
    /\ UNCHANGED <<got, decVars, newVars, svcVars, cfgVars, nextID, procVars, sqlVars, sqlRet, txVars,
                   normVars>>

\* the caller appends to the list it holds
CallerAppend ==
    /\ calls < MaxRefCalls
    /\ got.arr # "nil"
    /\ LET a == AppendSlice(heap, got, Scribble, "own")
       IN /\ heap' = a.heap
          /\ got' = a.sl
          /\ memRet' = [err |-> "nil", person |-> NoPerson, list |-> ListOf(a.heap, a.sl)]
    /\ qry' = [NoQry EXCEPT !.kind = "Append"]
    /\ persons' = SubSeq(heap'.store, 1, Len(persons))
    /\ calls' = calls + 1
    /\ UNCHANGED <<decVars, newVars, svcVars, cfgVars, nextID, procVars, sqlVars, sqlRet, txVars, normVars>>

NextRef ==
    \/ RefAdd
    \/ RefGetAll
    \/ RefGetByColor
    \/ RefGetByID
    \/ CallerSet
    \/ CallerAppend

SpecRef == InitRef /\ [][NextRef]_vars

\* the list the caller holds shares no array with r.persons, and a list a
\* read has just returned is the page of the stored persons
IndependentCopy ==
    /\ got.arr # "store"
    /\ qry.kind = "GetAll" => IsPageOf(memRet.list, Stored(persons), qry.limit, qry.offset)
    /\ qry.kind = "GetByColor" =>
          IsPageOf(memRet.list, {r \in Stored(persons) : r.Color = qry.color}, qry.limit, qry.offset)

\* a step that is no Add keeps the person list and nextID
KeepsStore == qry'.kind # "Add" => (persons' = persons /\ nextID' = nextID)

\* C25: GetAll, GetByID and GetByColor of the memory repository leave the
\* person list and nextID unchanged; the list they return shares no array
\* with the stored list, so that a caller that assigns to an element of a
\* returned list or appends to it leaves the stored list and nextID unchanged,
\* and every later read returns the page of the stored persons.
C25_ReadsArePure == []IndependentCopy /\ [][KeepsStore]_vars

\* the caller has overwritten the first element of a returned list of the
\* stored persons: the stored list still has its first person
C25_Witness ==
    /\ qry.kind = "Set"
    /\ qry.id = 1
    /\ Len(persons) >= 1
    /\ memRet.list.items[1] = Scribble
    /\ persons[1] # Scribble
    /\ persons[1].ID = 1

\* ------------------------------------------------------------------------
\* Specification of the memory repository under concurrent callers
\* ------------------------------------------------------------------------

Init ==
    /\ InitMem
    /\ ProcIdle
    /\ RefIdle
    /\ calls = 0
    /\ SqlEmpty
    /\ TxIdle
    /\ SeqIdle
    /\ NormIdle
    /\ DecIdle
    /\ NewDone
    /\ SvcIdle

Next ==
    \E p \in Procs :
        \/ AddCall(p)
        \/ AddLock(p)
        \/ AddWait(p)
        \/ AddCheck(p)
        \/ AddAssign(p)
        \/ AddIncr(p)
        \/ AddAppend(p)
        \/ AddUnlock(p)
        \/ ReadCall(p)
        \/ RLock(p)
        \/ GetAllBody(p)
        \/ GetByIDBody(p)
        \/ GetByColorBody(p)
        \/ RUnlock(p)

Spec == Init /\ [][Next]_vars

\* ------------------------------------------------------------------------
\* Properties of the memory repository under concurrent callers
\* ------------------------------------------------------------------------

AddsOk == {k \in 1..Len(addLog) : addLog[k].err = "nil"}
AddsRejected == {k \in 1..Len(addLog) : addLog[k].err = "CapacityReached"}

\* C1: a repository built from an empty source with maxPersons = N > 0 never
\* stores more than N persons, every Add returns either a person or
\* CapacityReached, and once more than N concurrent Adds have returned exactly
\* N of them have succeeded and exactly N persons are stored.
C1_CapacityUnderConcurrency ==
    (source = << >> /\ maxPersons > 0) =>
        /\ Len(persons) <= maxPersons
        /\ AddsOk \cup AddsRejected = 1..Len(addLog)
        /\ Len(addLog) > maxPersons =>
              /\ Cardinality(AddsOk) = maxPersons
              /\ Len(persons) = maxPersons

\* three Adds raced for two slots; callers 2 and 3 got them and caller 1 was rejected
C1_Witness ==
    /\ source = << >>
    /\ maxPersons = 2
    /\ Len(addLog) = 3
    /\ Cardinality(AddsOk) = 2
    /\ addLog[1].proc # 1
    /\ addLog[3].err = "CapacityReached"
    /\ addLog[3].proc = 1

\* C3: no two stored persons share an ID, the IDs handed out by Add are
\* strictly increasing in assignment order and greater than every ID given
\* out by load, and the successful Adds return them in that order.
C3_UniqueIncreasingIDs ==
    /\ \A i, j \in 1..Len(persons) : i # j => persons[i].ID # persons[j].ID
    /\ \A k \in 1..Len(assigned) :
          /\ \A i \in 1..loadedCount : assigned[k] > persons[i].ID
          /\ \A j \in 1..(k - 1) : assigned[k] > assigned[j]
    /\ \A k \in AddsOk :
          /\ \E a \in 1..Len(assigned) : assigned[a] = addLog[k].person.ID
          /\ \A j \in AddsOk : j < k => addLog[k].person.ID > addLog[j].person.ID

\* a load that skipped its first record and kept the second, then two successful Adds
C3_Witness ==
    /\ Len(dtos) = 2
    /\ loadedCount = 1
    /\ persons[1].ID = 2
    /\ Cardinality(AddsOk) >= 2

\* C4: every person stored by load carries the 1-based position of its record
\* among all normalized records, the first ID handed out by Add is one more
\* than the number of normalized records, and no Add is given the position of
\* a record, skipped or not.
C4_PositionIDs ==
    LET R == Len(dtos)
    IN /\ \A i \in 1..Len(persons) :
             i <= loadedCount =>
                /\ persons[i].ID \in 1..R
                /\ dtos[persons[i].ID].Lastname = persons[i].Lastname
                /\ dtos[persons[i].ID].Name = persons[i].Name
       /\ Len(assigned) > 0 => assigned[1] = R + 1
       /\ \A k \in 1..Len(assigned) : assigned[k] \notin 1..R
       /\ \A i \in 1..Len(persons) : i > loadedCount => persons[i].ID > R

\* the first record was skipped, the second is stored as number 2, the first Add got 3
C4_Witness ==
    /\ Len(dtos) = 2
    /\ loadedCount = 1
    /\ persons[1].ID = 2
    /\ Len(addLog) >= 1
    /\ addLog[1].err = "nil"
    /\ addLog[1].person.ID = 3

\* C9: a successful Add returns its argument with the ID replaced by the ID
\* the repository assigned, whatever ID the caller had set, and in every later
\* state GetByID of that ID finds a person equal to the returned one.
C9_AddThenGetByID ==
    \A k \in AddsOk :
        LET e == addLog[k]
        IN /\ e.person = [e.arg EXCEPT !.ID = e.person.ID]
           /\ \E a \in 1..Len(assigned) : assigned[a] = e.person.ID
           /\ GetByID(persons, e.person.ID).err = "nil"
           /\ GetByID(persons, e.person.ID).person = e.person

\* the caller had set ID 1, which a loaded person owns; another Add followed
C9_Witness ==
    /\ loadedCount >= 1
    /\ persons[1].ID = 1
    /\ Len(addLog) >= 2
    /\ addLog[1].err = "nil"
    /\ addLog[1].arg.ID = 1
    /\ addLog[1].person.ID # 1
    /\ addLog[2].err = "nil"

\* the caller whose Lock() has returned and whose Unlock() has not run yet
WriterHolds == mu.w # 0 /\ pc[mu.w] \in {"add_check", "add_assign", "add_incr", "add_append", "add_unlock"}

\* the callers inside a read, between RLock() and RUnlock()
Reading == {p \in Procs : pc[p] \in {"read", "runlock"}}

\* the list is complete: the loaded persons followed by one person for every
\* ID handed out, each carrying that ID
CompleteList ==
    /\ Len(persons) = loadedCount + Len(assigned)
    /\ \A k \in 1..Len(assigned) : persons[loadedCount + k].ID = assigned[k]
    /\ nextID = Len(dtos) + 1 + Len(assigned)

\* C17: the person list and nextID change only in a step of the caller that
\* holds the write lock; no caller is inside a read while an Add holds the
\* lock; and what a GetAll returns is a page of the complete list as it stands
\* between two Adds.
C17_LockDiscipline ==
    /\ [][(persons' # persons \/ nextID' # nextID) =>
             (WriterHolds /\ mu'.w = mu.w /\ pc'[mu.w] # pc[mu.w])]_vars
    /\ [](WriterHolds => (Reading = {} /\ mu.readers = {}))
    /\ [](\A p \in Reading : mu.readers # {} /\ CompleteList)
    /\ [](\A p \in Procs :
             (pc[p] = "runlock" /\ call[p].kind = "GetAll") =>
                 \E limit \in 0..1, offset \in 0..1 :
                     IsPageOf(ret[p].list, Stored(persons), limit, offset))

\* a GetAll has returned the list with an added person while a writer waits
\* for the reader to leave
C17_Witness ==
    /\ \E p \in Procs :
          /\ pc[p] = "runlock"
          /\ call[p].kind = "GetAll"
          /\ ret[p].list.items = persons
    /\ Len(persons) > loadedCount
    /\ \E q \in Procs : pc[q] = "add_wait"

\* C29: with maxPersons > 0 the number of stored persons never exceeds the
\* larger of maxPersons and the number of persons the load stored, and load
\* itself is not held to the limit; when the load stored maxPersons persons
\* or more, every Add fails with CapacityReached and the list stays as loaded.
C29_CapacityOnlyInAdd ==
    maxPersons > 0 =>
        /\ Len(persons) <= (IF maxPersons > loadedCount THEN maxPersons ELSE loadedCount)
        /\ loadedCount >= maxPersons =>
              /\ Len(persons) = loadedCount
              /\ \A k \in 1..Len(addLog) :
                    addLog[k].err = "CapacityReached" /\ addLog[k].person = NoPerson
              /\ \A p \in Procs :
                    pc[p] \notin {"add_assign", "add_incr", "add_append"}

\* the load stored two persons although maxPersons is 1, and an Add was
\* rejected
C29_Witness ==
    /\ maxPersons = 1
    /\ loadedCount = 2
    /\ Len(persons) = 2
    /\ Len(addLog) >= 1
    /\ addLog[1].err = "CapacityReached"

\* the IDs of the persons the successful Adds returned, in the order of return
RECURSIVE ReturnedIDs(_)
ReturnedIDs(log) ==
    IF Len(log) = 0 THEN << >>
    ELSE (IF log[1].err = "nil" THEN <<log[1].person.ID>> ELSE << >>) \o ReturnedIDs(Tail(log))

\* every ID handed out is the one before it plus one, rejected Adds between
\* them or not, and nextID is the first ID plus the number of IDs handed out
ConsecutiveIDs ==
    /\ \A k \in 2..Len(assigned) : assigned[k] = assigned[k - 1] + 1
    /\ \A k \in 2..Len(ReturnedIDs(addLog)) :
          ReturnedIDs(addLog)[k] = ReturnedIDs(addLog)[k - 1] + 1
    /\ nextID = Len(dtos) + 1 + Len(assigned)
                   - Cardinality({p \in Procs : pc[p] = "add_incr"})

\* an Add that is rejected changes neither the list nor nextID, from its
\* capacity check to its return
RejectedKeepsStore ==
    \A p \in Procs :
        \/ (pc[p] = "add_check" /\ pc'[p] = "add_unlock")
        \/ (pc[p] = "add_unlock" /\ ret[p].err = "CapacityReached" /\ pc'[p] = "idle")
        => /\ persons' = persons
           /\ nextID' = nextID
           /\ assigned' = assigned
           /\ pc'[p] = "add_unlock" => ret'[p].err = "CapacityReached"

\* C30: an Add of the memory repository that fails with CapacityReached
\* leaves the person list and nextID unchanged and uses up no ID; the IDs of
\* the successful Adds are consecutive.
C30_RejectedAddKeepsIDs == []ConsecutiveIDs /\ [][RejectedKeepsStore]_vars

\* two Adds got consecutive IDs, a third one was rejected, and nextID is
\* still the second ID plus one
C30_Witness ==
    /\ Len(addLog) = 3
    /\ addLog[1].err = "nil"
    /\ addLog[2].err = "nil"
    /\ addLog[2].person.ID = addLog[1].person.ID + 1
    /\ addLog[3].err = "CapacityReached"
    /\ nextID = addLog[2].person.ID + 1
    /\ Len(persons) = loadedCount + 2

\* ------------------------------------------------------------------------
\* The memory repository under fair scheduling
\* ------------------------------------------------------------------------

\* a step of a call that has started
Proceed(p) ==
    \/ AddLock(p)
    \/ AddWait(p)
    \/ AddCheck(p)
    \/ AddAssign(p)
    \/ AddIncr(p)
    \/ AddAppend(p)
    \/ AddUnlock(p)
    \/ RLock(p)
    \/ GetAllBody(p)
    \/ GetByIDBody(p)
    \/ GetByColorBody(p)
    \/ RUnlock(p)

\* a repository loaded from an empty file, with room for one person
InitLive ==
    /\ Init
    /\ source = << >>
    /\ maxPersons = 1

\* the scheduler runs every goroutine that can take a step
SpecLive == InitLive /\ [][Next]_vars /\ \A p \in Procs : WF_vars(Proceed(p))

\* C18: under fair scheduling every Add that starts comes to hold the write
\* lock, every read that starts comes to hold the read lock, and every call
\* returns with its lock released.
C18_EveryCallReturns ==
    \A p \in Procs :
        /\ (pc[p] = "add_lock") ~> (WriterHolds /\ mu.w = p)
        /\ (pc[p] = "rlock") ~> (p \in mu.readers)
        /\ (pc[p] # "idle") ~> (pc[p] = "idle" /\ mu.w # p /\ p \notin mu.readers)

\* a reader and a second writer are kept out while an Add holds the lock
C18_Witness ==
    /\ WriterHolds
    /\ \E p \in Procs : pc[p] = "rlock"
    /\ \E q \in Procs : pc[q] = "add_lock"

====
